---- MODULE Spec2Model ----
(***************************************************************************)
(* Hub <-> Agent coordination layer of bazzite-devkit / CapyDeploy:        *)
(* the mDNS discovery client (package discovery, Client), the upload       *)
(* session contract (package agent, FileReceiver), the message envelope    *)
(* and error taxonomy (package protocol) and the remote shortcut files     *)
(* (package shortcuts, AddShortcutWithArtwork).                            *)
(*                                                                         *)
(* Time is kept relative.  A time.Time value t is represented by           *)
(* time.Since(t), the distance from t to the current instant, saturating   *)
(* at AgeCap; time.Now() is therefore 0 and the clock action Tick moves    *)
(* every stored timestamp one unit further into the past.  A timer is      *)
(* represented by the time left until it fires.  Strings that the code     *)
(* slices (TXT records, ids, names) are sequences of one-character         *)
(* strings.                                                                *)
(***************************************************************************)
EXTENDS Integers, Sequences, FiniteSets, TLC

\* ---------------------------------------------------------------- bounds
MaxAnnounce == 2       \* announcements the network delivers in one run
MaxConnects == 3        \* device.Client values created in one run
MaxFiles == 3          \* files in the game folder
MaxFolder == 12        \* files in a large game folder
MaxFields == 3         \* TXT records one announcement carries
MaxHost == 4           \* last host number scanNetworkForSSH probes (254 in the code)
MaxInFlight == 2       \* capacity of the scan's semaphore (50 in the code)
MaxIds == 3            \* correlation ids allocated in one run
MaxRestarts == 3       \* RefreshSteamLibrary calls in one run
MaxShortcuts == 2      \* shortcuts one user's file holds
MaxTotal == 3          \* largest totalSize of an upload, in bytes

\* ------------------------------------------------------ program constants
EventQueueCap == 16    \* make(chan DiscoveryEvent, 16)
EntriesChCap == 16     \* make(chan *mdns.ServiceEntry, 16)
QueryWindow == 3       \* c.Discover(ctx, 3*time.Second)

Nil == "nil"
NoErr == "nil"
CtxErr == "context canceled"

Callers == {"caller1", "caller2"}   \* goroutines that call Discover directly
Procs == {"loop"} \cup Callers       \* the goroutines that run Discover
Intervals == {1}                    \* interval arguments of StartContinuousDiscovery
Timeouts == {2}                     \* stale timeouts set through SetTimeout
CallerWindows == {1}                \* timeout arguments of a direct Discover call
UploadIds == <<"u1", "u2">>         \* the upload ids InitUpload hands out, in order
Hosts == {"deck1", "deck2"}         \* the devices a RemoteConfig may name
DevNames == {"dev1", "dev2"}        \* names of the configured devices
SteamUsers == {"user1", "user2"}    \* the Steam users of the remote device
NoFile == [has |-> FALSE, scs |-> << >>]  \* a user without a shortcuts file
Dests == {"d1", "d2"}               \* destination paths of UploadConfig
Files == {"f1", "f2"}               \* file paths under a session's destination

\* ------------------------------------------------------------ announcements
IdA == <<"a">>
IdB == <<"b">>
Ids == {IdA, IdB}

EntryA1 ==
  [Name |-> <<"n", "a">>, Host |-> <<"h", "a">>, Port |-> 1,
   AddrV4 |-> "v4a", AddrV6 |-> Nil,
   InfoFields |-> << <<"i", "d", "=", "a">>, <<"n", "a", "m", "e", "=", "A">>,
                     <<"p", "l", "a", "t", "f", "o", "r", "m", "=", "L">>,
                     <<"v", "e", "r", "s", "i", "o", "n", "=", "1">> >>]
EntryA2 ==
  [Name |-> <<"n", "a">>, Host |-> <<"h", "a">>, Port |-> 2,
   AddrV4 |-> "v4b", AddrV6 |-> "v6b",
   InfoFields |-> << <<"i", "d", "=", "a">>, <<"n", "a", "m", "e", "=", "A">>,
                     <<"p", "l", "a", "t", "f", "o", "r", "m", "=", "L">>,
                     <<"v", "e", "r", "s", "i", "o", "n", "=", "1">> >>]
EntryB ==
  [Name |-> <<"b">>, Host |-> <<"h", "b">>, Port |-> 1,
   AddrV4 |-> "v4c", AddrV6 |-> Nil, InfoFields |-> << >>]
Entries == {EntryA1, EntryA2, EntryB}
\* a *mdns.ServiceEntry is << >> when nil and <<entry>> otherwise
NilEntry == << >>
Ptr(entry) == <<entry>>

\* ------------------------------------------------------------- time values
Min(a, b) == IF a < b THEN a ELSE b

\* a float64 value that is the quotient of two small integers
Ratio(n, d) == [num |-> n, den |-> d]
RatioLeq(a, b) == a.num * b.den <= b.num * a.den
\* saturation of time.Since values: one more than the largest stale timeout
AgeCap == (CHOOSE t \in Timeouts : \A u \in Timeouts : u <= t) + 1
Older(t) == Min(t + 1, AgeCap)       \* a timestamp after one more unit of time
TimeNow == 0                         \* time.Now()

\* ------------------------------------------------- processEntry, pure part
HasPrefix(txt, pre) == Len(txt) > Len(pre) /\ SubSeq(txt, 1, Len(pre)) = pre
CutPrefix(txt, pre) == SubSeq(txt, Len(pre) + 1, Len(txt))

EmptyInfo == [ID |-> << >>, Name |-> << >>, Platform |-> << >>, Version |-> << >>]

ParseField(info, txt) ==
  CASE HasPrefix(txt, <<"i", "d", "=">>) ->
         [info EXCEPT !.ID = CutPrefix(txt, <<"i", "d", "=">>)]
    [] HasPrefix(txt, <<"n", "a", "m", "e", "=">>) ->
         [info EXCEPT !.Name = CutPrefix(txt, <<"n", "a", "m", "e", "=">>)]
    [] HasPrefix(txt, <<"p", "l", "a", "t", "f", "o", "r", "m", "=">>) ->
         [info EXCEPT !.Platform =
            CutPrefix(txt, <<"p", "l", "a", "t", "f", "o", "r", "m", "=">>)]
    [] HasPrefix(txt, <<"v", "e", "r", "s", "i", "o", "n", "=">>) ->
         [info EXCEPT !.Version =
            CutPrefix(txt, <<"v", "e", "r", "s", "i", "o", "n", "=">>)]
    [] OTHER -> info

RECURSIVE ParseTxt(_, _)
ParseTxt(fields, info) ==
  IF fields = << >> THEN info
  ELSE ParseTxt(Tail(fields), ParseField(info, Head(fields)))

\* an AgentInfo whose two fallbacks both take the instance name
AgentInfoOfInstanceName(entry) ==
  LET parsed == ParseTxt(entry.InfoFields, EmptyInfo)
      withId == IF parsed.ID = << >> THEN [parsed EXCEPT !.ID = entry.Name]
                ELSE parsed
  IN IF withId.Name = << >> THEN [withId EXCEPT !.Name = entry.Name] ELSE withId

\* from the TXT loop to the two fallbacks
AgentInfoOf(entry) ==
  LET parsed == ParseTxt(entry.InfoFields, EmptyInfo)
      withId == IF parsed.ID = << >> THEN [parsed EXCEPT !.ID = entry.Name]
                ELSE parsed
  IN IF withId.Name = << >> THEN [withId EXCEPT !.Name = entry.Host] ELSE withId

CollectIPs(entry) ==
  (IF entry.AddrV4 # Nil THEN <<entry.AddrV4>> ELSE << >>) \o
  (IF entry.AddrV6 # Nil THEN <<entry.AddrV6>> ELSE << >>)

\* the DiscoveredAgent literal; DiscoveredAt, which the client writes here and
\* never reads or changes again, is not carried
NewAgent(entry, now) ==
  [Info |-> AgentInfoOf(entry), Host |-> entry.Host, Port |-> entry.Port,
   IPs |-> CollectIPs(entry), LastSeen |-> now]

\* DiscoveredAgent.IsStale: time.Since(a.LastSeen) exceeds the timeout
IsStale(agent, d) == agent.LastSeen > d

\* ------------------------------------------------------------------ state
VARIABLES
  agents,      \* Client.agents: id -> DiscoveredAgent
  eventsCh,    \* Client.eventsCh, buffered channel of DiscoveryEvent
  timeout,     \* Client.timeout
  mu,          \* Client.mu: Nil or the goroutine holding it
  ctxDone,     \* per goroutine: its context is cancelled
  dpc,         \* per goroutine: position inside Discover
  entriesCh,   \* per Discover call: its entriesCh
  qstate,      \* per Discover call: the query goroutine, none/running/closed
  qleft,       \* per Discover call: time left of params.Timeout
  nsent,       \* per Discover call: entries the query delivered
  found,       \* per Discover call: the local slice agents
  pe,          \* per goroutine: the local agent of processEntry, stamped with now
  pev,         \* per goroutine: the event processEntry is about to emit
  ret,         \* per goroutine: what its last Discover call returned
  seen,        \* per Discover call: ids whose announcement it committed
  loopPc,      \* position of StartContinuousDiscovery
  interval,    \* interval argument of StartContinuousDiscovery
  tickLeft,    \* time left until the ticker fires
  tickPending, \* ticker.C holds a tick
  todo,        \* pruneStaleAgents: map entries the range has not visited yet
  rpc,         \* position of RemoveAgent
  rloc,        \* locals of RemoveAgent (id, exists)
  dropped,     \* the latest emitEvent call took the default branch
  announced,   \* announcements delivered so far
  uploads,     \* the Agent's upload sessions: uploadID -> session
  uploadErr,   \* error code of the latest FileReceiver call
  initRes,     \* (uploadID, resumeFrom) of the latest InitUpload call
  perr,        \* the *ProtocolError built last, if any
  wire,        \* the ErrorResponse converted last, if any
  nextId,      \* correlation ids allocated so far
  inflight,    \* requests sent and not answered yet, oldest first
  last,        \* the latest response or error with the request it answers
  lastEvent,   \* the latest event message
  parsed,      \* the latest ParsePayload call: message, target, result
  stores,      \* the device's shortcuts file of every Steam user
  scRet,       \* what the latest AddShortcutWithArtwork call returned
  lastEntry,   \* the announcement whose TXT records were parsed last, if any
  lastInfo,    \* the AgentInfo processEntry derived from it
  steam,       \* the Steam process of every device: running, stopping or stopped
  rsHost,      \* cfg.Host of the latest RefreshSteamLibrary call
  rsPc,        \* position of RefreshSteamLibrary
  rsRet,       \* what the latest RefreshSteamLibrary call returned, if it has
  rsOut,       \* outcome of the latest client.RunCommand, which the caller drops
  rsIssued,    \* commands the call in progress (or the latest one) has sent
  rsCalls,     \* RefreshSteamLibrary calls started
  scanPc,      \* scanNetworkForSSH: position of the calling goroutine
  baseIP,      \* scanNetworkForSSH: first three parts of the local address
  scanI,       \* scanNetworkForSSH: probe goroutines started so far
  probePc,     \* scanNetworkForSSH: position of each probe goroutine
  semaphore,   \* scanNetworkForSSH: values held by the semaphore channel
  wg,          \* scanNetworkForSSH: counter of the WaitGroup
  scanMu,      \* scanNetworkForSSH: holder of mu, 0 when free
  scanFound,   \* scanNetworkForSSH: found
  probes,      \* scanNetworkForSSH: hasSSH calls made for each address
  sshOpen,     \* scanNetworkForSSH: addresses whose hasSSH returned true
  scanRet,     \* scanNetworkForSSH: returned list, << >> before the return
  closed,      \* Client.Close has closed eventsCh
  panicked,    \* a send on the closed eventsCh has crashed the program
  owed,        \* for each id, the events of its registry mutations not yet emitted, oldest first
  misplaced,   \* an event was emitted while an older one of its id was owed
  clearedIds,  \* ids dropped by Clear and not announced since
  listed,      \* GetAgents: ids of the agents in the slice it returned last
  devices,     \* devices: the device list, by name
  selected,    \* State.SelectedDevice, << >> when nil
  devClient,   \* Device.Client of each device, 0 when nil
  devConnected, \* Device.Connected of each device
  connPc,      \* connectToDevice: position of the goroutine that connects each device
  connClient,  \* connectToDevice: its local client, 0 before NewClient
  clients,     \* device.Client values created so far
  closedClients, \* device.Client values whose Close was called
  uiPc,        \* disconnectDevice, removeDevice: the call the UI goroutine is in, << >> when none
  ugPc,        \* uploadGame: position of its goroutine
  ugFiles,     \* uploadGame: files
  ugI,         \* uploadGame: iterations of the upload loop that have ended
  ugDirFailed, \* uploadGame: files whose MkdirAll(remoteDir) failed
  ugTried,     \* uploadGame: files handed to UploadFile, in order
  ugSent,      \* uploadGame: files UploadFile has uploaded, in order
  ugShortcuts, \* uploadGame: calls of createShortcut
  ugResult,    \* uploadGame: what the run has reported
  ugProgress   \* uploadGame: value of the progress bar, as a fraction

upVars == <<uploads, uploadErr, initRes>>
errVars == <<perr, wire>>
msgVars == <<nextId, inflight, last, lastEvent, parsed>>
scVars == <<stores, scRet>>
entVars == <<lastEntry, lastInfo>>
steamVars == <<steam, rsHost, rsPc, rsRet, rsOut, rsIssued, rsCalls>>
scanVars == <<scanPc, baseIP, scanI, probePc, semaphore, wg, scanMu, scanFound, probes, sshOpen, scanRet>>
chanVars == <<closed, panicked, owed, misplaced, clearedIds>>
getVars == <<listed>>
devVars == <<devices, selected, devClient, devConnected, connPc, connClient, clients, closedClients, uiPc>>
ugVars == <<ugPc, ugFiles, ugI, ugDirFailed, ugTried, ugSent, ugShortcuts, ugResult, ugProgress>>

vars == <<agents, eventsCh, timeout, mu, ctxDone, dpc, entriesCh, qstate, qleft,
          nsent, found, pe, pev, ret, seen, loopPc, interval, tickLeft,
          tickPending, todo, rpc, rloc, dropped, announced, uploads, uploadErr,
          initRes, perr, wire, nextId, inflight, last, lastEvent,
          parsed, stores, scRet,
          lastEntry, lastInfo,
          steam, rsHost, rsPc, rsRet, rsOut, rsIssued, rsCalls,
          scanPc, baseIP, scanI, probePc, semaphore, wg, scanMu, scanFound, probes, sshOpen, scanRet,
          closed, panicked, owed, misplaced, clearedIds,
          listed,
          devices, selected, devClient, devConnected, connPc, connClient, clients, closedClients, uiPc,
          ugPc, ugFiles, ugI, ugDirFailed, ugTried, ugSent, ugShortcuts, ugResult,
          ugProgress>>

discVars == <<agents, eventsCh, timeout, mu, ctxDone, dpc, entriesCh, qstate, qleft,
              nsent, found, pe, pev, ret, seen, loopPc, interval, tickLeft,
              tickPending, todo, rpc, rloc, dropped, announced>>

\* what the actions of one component leave alone
otherVars == <<upVars, errVars, msgVars, scVars, entVars, steamVars, scanVars, getVars, devVars, ugVars>>
nonDiscVars == <<otherVars, chanVars>>
nonUpVars == <<discVars, errVars, msgVars, scVars, entVars, steamVars, scanVars, chanVars, getVars, devVars, ugVars>>
nonErrVars == <<discVars, upVars, msgVars, scVars, entVars, steamVars, scanVars, chanVars, getVars, devVars, ugVars>>
nonMsgVars == <<discVars, upVars, errVars, scVars, entVars, steamVars, scanVars, chanVars, getVars, devVars, ugVars>>
nonScVars == <<discVars, upVars, errVars, msgVars, entVars, steamVars, scanVars, chanVars, getVars, devVars, ugVars>>
nonEntVars == <<upVars, errVars, msgVars, scVars, discVars, steamVars, scanVars, chanVars, getVars, devVars, ugVars>>
nonSteamVars == <<upVars, errVars, msgVars, scVars, entVars, discVars, scanVars, chanVars, getVars, devVars, ugVars>>
nonScanVars == <<upVars, errVars, msgVars, scVars, entVars, steamVars, discVars, chanVars, getVars, devVars, ugVars>>
nonDevVars == <<upVars, errVars, msgVars, scVars, entVars, steamVars, scanVars, getVars, discVars, chanVars, ugVars>>
nonGetVars == <<upVars, errVars, msgVars, scVars, entVars, steamVars, scanVars, devVars, discVars, chanVars, ugVars>>
nonUgVars == <<upVars, errVars, msgVars, scVars, entVars, steamVars, scanVars, getVars, devVars, discVars, chanVars>>

NoPe == NewAgent([Name |-> << >>, Host |-> << >>, Port |-> 0, AddrV4 |-> Nil,
                  AddrV6 |-> Nil, InfoFields |-> << >>], TimeNow)
NoEvent == [Type |-> Nil, ID |-> << >>]
NoRemove == [id |-> << >>, exists |-> FALSE]
NoRet == [agents |-> << >>, err |-> Nil]
EmptyMap == [k \in {} |-> Nil]
NoInit == [uploadId |-> Nil, resumeFrom |-> 0]

\* NewClient, followed by SetTimeout
Init ==
  /\ agents = EmptyMap
  /\ eventsCh = << >>
  /\ timeout \in Timeouts
  /\ mu = Nil
  /\ ctxDone = [p \in Procs |-> FALSE]
  /\ dpc = [p \in Procs |-> "idle"]
  /\ entriesCh = [p \in Procs |-> << >>]
  /\ qstate = [p \in Procs |-> "none"]
  /\ qleft = [p \in Procs |-> 0]
  /\ nsent = [p \in Procs |-> 0]
  /\ found = [p \in Procs |-> << >>]
  /\ pe = [p \in Procs |-> NoPe]
  /\ pev = [p \in Procs |-> NoEvent]
  /\ ret = [p \in Procs |-> NoRet]
  /\ seen = [p \in Procs |-> {}]
  /\ loopPc = "idle"
  /\ interval = 0
  /\ tickLeft = 0
  /\ tickPending = FALSE
  /\ todo = {}
  /\ rpc = "idle"
  /\ rloc = NoRemove
  /\ dropped = FALSE
  /\ announced = 0
  /\ uploads = EmptyMap
  /\ uploadErr = NoErr
  /\ initRes = NoInit
  /\ perr = << >>
  /\ wire = << >>
  /\ nextId = 0
  /\ inflight = << >>
  /\ last = << >>
  /\ lastEvent = << >>
  /\ parsed = << >>
  /\ stores = [u \in SteamUsers |-> NoFile]
  /\ scRet = NoErr
  /\ lastEntry = << >>
  /\ lastInfo = << >>
  /\ steam = [h \in Hosts |-> "running"]
  /\ rsHost = "deck1"
  /\ rsPc = "idle"
  /\ rsRet = "none"
  /\ rsOut = "none"
  /\ rsIssued = 0
  /\ rsCalls = 0
  /\ scanPc = "idle"
  /\ baseIP = ""
  /\ scanI = 0
  /\ probePc = [i \in 1..MaxHost |-> "unborn"]
  /\ semaphore = 0
  /\ wg = 0
  /\ scanMu = 0
  /\ scanFound = << >>
  /\ probes = [i \in 1..MaxHost |-> 0]
  /\ sshOpen = {}
  /\ scanRet = << >>
  /\ closed = FALSE
  /\ panicked = FALSE
  /\ owed = [id \in Ids |-> << >>]
  /\ misplaced = FALSE
  /\ clearedIds = {}
  /\ listed = << >>
  /\ devices = <<"dev1", "dev2">>
  /\ selected = << >>
  /\ devClient = [d \in DevNames |-> 0]
  /\ devConnected = [d \in DevNames |-> FALSE]
  /\ connPc = [d \in DevNames |-> "none"]
  /\ connClient = [d \in DevNames |-> 0]
  /\ clients = 0
  /\ closedClients = {}
  /\ uiPc = << >>
  /\ ugPc = "idle"
  /\ ugFiles = << >>
  /\ ugI = 0
  /\ ugDirFailed = {}
  /\ ugTried = << >>
  /\ ugSent = << >>
  /\ ugShortcuts = 0
  /\ ugResult = "none"
  /\ ugProgress = Ratio(0, 1)

\* ------------------------------------------------------------- emitEvent
\* an emitEvent that sends with a plain c.eventsCh <- event
emitEventBlocking(event) ==
  /\ Len(eventsCh) < EventQueueCap
  /\ eventsCh' = Append(eventsCh, event)
  /\ dropped' = FALSE
  /\ panicked' = closed

\* select { case c.eventsCh <- event: default: }; the send case of a closed
\* channel is ready and panics
emitEvent(event) ==
  IF closed
    THEN /\ panicked' = TRUE
         /\ UNCHANGED <<eventsCh, dropped>>
    ELSE /\ eventsCh' = IF Len(eventsCh) < EventQueueCap THEN Append(eventsCh, event)
                        ELSE eventsCh
         /\ dropped' = (Len(eventsCh) >= EventQueueCap)
         /\ UNCHANGED panicked

\* the events owed for an id once one of the given type has been emitted
RECURSIVE Settle(_, _)
Settle(o, type) ==
  IF o = << >> THEN << >>
  ELSE IF Head(o) = type THEN Tail(o)
  ELSE <<Head(o)>> \o Settle(Tail(o), type)

\* the event is emitted while an older event of its id is still owed
Overtakes(event) == owed[event.ID] # << >> /\ Head(owed[event.ID]) # event.Type

Without(m, id) == [k \in DOMAIN m \ {id} |-> m[k]]

\* --------------------------------------------------------------- Discover
\* Discover up to its select loop: a fresh entriesCh and the query goroutine
StartQuery(p, t) ==
  /\ dpc' = [dpc EXCEPT ![p] = "select"]
  /\ entriesCh' = [entriesCh EXCEPT ![p] = << >>]
  /\ qstate' = [qstate EXCEPT ![p] = "running"]
  /\ qleft' = [qleft EXCEPT ![p] = t]
  /\ nsent' = [nsent EXCEPT ![p] = 0]
  /\ found' = [found EXCEPT ![p] = << >>]
  /\ seen' = [seen EXCEPT ![p] = {}]

\* a direct call of Discover with its own context
CallDiscover(p, t) ==
  /\ dpc[p] = "idle"
  /\ ctxDone' = [ctxDone EXCEPT ![p] = FALSE]
  /\ ret' = [ret EXCEPT ![p] = NoRet]
  /\ StartQuery(p, t)
  /\ UNCHANGED <<agents, eventsCh, timeout, mu, pe, pev, loopPc, interval,
                 tickLeft, tickPending, todo, rpc, rloc, dropped, announced>>
  /\ UNCHANGED nonDiscVars

\* mdns.Query hands one service entry to params.Entries
QuerySend(p, e, max) ==
  /\ qstate[p] = "running"
  /\ announced < max
  /\ Len(entriesCh[p]) < EntriesChCap
  /\ entriesCh' = [entriesCh EXCEPT ![p] = Append(@, Ptr(e))]
  /\ nsent' = [nsent EXCEPT ![p] = @ + 1]
  /\ announced' = announced + 1
  /\ UNCHANGED <<agents, eventsCh, timeout, mu, ctxDone, dpc, qstate, qleft, found,
                 pe, pev, ret, seen, loopPc, interval, tickLeft, tickPending, todo,
                 rpc, rloc, dropped>>
  /\ UNCHANGED nonDiscVars

\* a failed query that is treated as fatal and clears the registry
QueryFailClear(p) ==
  /\ qstate[p] = "running"
  /\ nsent[p] = 0
  /\ qstate' = [qstate EXCEPT ![p] = "closed"]
  /\ agents' = EmptyMap
  /\ UNCHANGED <<eventsCh, timeout, mu, ctxDone, dpc, entriesCh, qleft,
                 nsent, found, pe, pev, ret, seen, loopPc, interval, tickLeft,
                 tickPending, todo, rpc, rloc, dropped, announced>>
  /\ UNCHANGED nonDiscVars

\* mdns.Query returns an error before any answer; the goroutine closes entriesCh
QueryFail(p) ==
  /\ qstate[p] = "running"
  /\ nsent[p] = 0
  /\ qstate' = [qstate EXCEPT ![p] = "closed"]
  /\ UNCHANGED <<agents, eventsCh, timeout, mu, ctxDone, dpc, entriesCh, qleft,
                 nsent, found, pe, pev, ret, seen, loopPc, interval, tickLeft,
                 tickPending, todo, rpc, rloc, dropped, announced>>
  /\ UNCHANGED nonDiscVars

\* params.Timeout has elapsed: mdns.Query returns, the goroutine closes entriesCh
QueryTimeout(p) ==
  /\ qstate[p] = "running"
  /\ qleft[p] = 0
  /\ qstate' = [qstate EXCEPT ![p] = "closed"]
  /\ UNCHANGED <<agents, eventsCh, timeout, mu, ctxDone, dpc, entriesCh, qleft,
                 nsent, found, pe, pev, ret, seen, loopPc, interval, tickLeft,
                 tickPending, todo, rpc, rloc, dropped, announced>>
  /\ UNCHANGED nonDiscVars

\* case entry, ok := <-entriesCh with ok: processEntry up to c.mu.Lock()
DiscoverRecv(p) ==
  /\ dpc[p] = "select"
  /\ entriesCh[p] # << >>
  /\ entriesCh' = [entriesCh EXCEPT ![p] = Tail(@)]
  /\ IF Head(entriesCh[p]) = NilEntry
       THEN UNCHANGED <<dpc, pe>>
       ELSE /\ pe' = [pe EXCEPT ![p] = NewAgent(Head(entriesCh[p])[1], TimeNow)]
            /\ dpc' = [dpc EXCEPT ![p] = "lock"]
  /\ UNCHANGED <<agents, eventsCh, timeout, mu, ctxDone, qstate, qleft, nsent,
                 found, pev, ret, seen, loopPc, interval, tickLeft, tickPending,
                 todo, rpc, rloc, dropped, announced>>
  /\ UNCHANGED nonDiscVars

\* processEntry that files every announcement as a new agent
ProcessEntryCommitAlwaysAdd(p) ==
  /\ dpc[p] = "lock"
  /\ mu = Nil
  /\ LET id == pe[p].Info.ID IN
       /\ agents' = (id :> pe[p]) @@ agents
       /\ pev' = [pev EXCEPT ![p] = [Type |-> "discovered", ID |-> id]]
       /\ seen' = [seen EXCEPT ![p] = @ \cup {id}]
  /\ pe' = [pe EXCEPT ![p] = NoPe]
  /\ dpc' = [dpc EXCEPT ![p] = "emit"]
  /\ UNCHANGED <<eventsCh, timeout, mu, ctxDone, entriesCh, qstate, qleft, nsent,
                 found, ret, loopPc, interval, tickLeft, tickPending, todo, rpc,
                 rloc, dropped, announced>>
  /\ owed' = [owed EXCEPT ![pe[p].Info.ID] = Append(@, pev'[p].Type)]
  /\ clearedIds' = clearedIds \ {pe[p].Info.ID}
  /\ UNCHANGED <<closed, panicked, misplaced, otherVars>>

\* processEntry from c.mu.Lock() to c.mu.Unlock(): update or add the agent
ProcessEntryCommit(p) ==
  /\ dpc[p] = "lock"
  /\ mu = Nil
  /\ LET id == pe[p].Info.ID IN
       /\ IF id \in DOMAIN agents
            THEN /\ agents' = [agents EXCEPT ![id] =
                                 [@ EXCEPT !.LastSeen = pe[p].LastSeen,
                                           !.IPs = pe[p].IPs,
                                           !.Port = pe[p].Port]]
                 /\ pev' = [pev EXCEPT ![p] = [Type |-> "updated", ID |-> id]]
            ELSE /\ agents' = (id :> pe[p]) @@ agents
                 /\ pev' = [pev EXCEPT ![p] = [Type |-> "discovered", ID |-> id]]
       /\ seen' = [seen EXCEPT ![p] = @ \cup {id}]
  /\ pe' = [pe EXCEPT ![p] = NoPe]
  /\ dpc' = [dpc EXCEPT ![p] = "emit"]
  /\ UNCHANGED <<eventsCh, timeout, mu, ctxDone, entriesCh, qstate, qleft, nsent,
                 found, ret, loopPc, interval, tickLeft, tickPending, todo, rpc,
                 rloc, dropped, announced>>
  /\ owed' = [owed EXCEPT ![pe[p].Info.ID] = Append(@, pev'[p].Type)]
  /\ clearedIds' = clearedIds \ {pe[p].Info.ID}
  /\ UNCHANGED <<closed, panicked, misplaced, otherVars>>

\* processEntry after the unlock: emitEvent, return agent; Discover appends it
ProcessEntryEmit(p) ==
  /\ dpc[p] = "emit"
  /\ emitEvent(pev[p])
  /\ found' = [found EXCEPT ![p] = Append(@, pev[p].ID)]
  /\ pev' = [pev EXCEPT ![p] = NoEvent]
  /\ dpc' = [dpc EXCEPT ![p] = "select"]
  /\ UNCHANGED <<agents, timeout, mu, ctxDone, entriesCh, qstate, qleft, nsent,
                 pe, ret, seen, loopPc, interval, tickLeft, tickPending, todo, rpc,
                 rloc, announced>>
  /\ owed' = [owed EXCEPT ![pev[p].ID] = Settle(@, pev[p].Type)]
  /\ misplaced' = (misplaced \/ Overtakes(pev[p]))
  /\ UNCHANGED <<closed, clearedIds, otherVars>>

\* a loop that goes back to its select after every Discover, without pruning
ReturnNoPrune(p, list, err) ==
  /\ ret' = IF p = "loop" THEN ret
            ELSE [ret EXCEPT ![p] = [agents |-> list, err |-> err]]
  /\ dpc' = [dpc EXCEPT ![p] = "idle"]
  /\ entriesCh' = [entriesCh EXCEPT ![p] = << >>]
  /\ qstate' = [qstate EXCEPT ![p] = "none"]
  /\ qleft' = [qleft EXCEPT ![p] = 0]
  /\ nsent' = [nsent EXCEPT ![p] = 0]
  /\ found' = [found EXCEPT ![p] = << >>]
  /\ seen' = [seen EXCEPT ![p] = {}]
  /\ loopPc' = IF p = "loop" THEN "select" ELSE loopPc

\* Discover returns to its caller; in the loop the call site decides what follows
Return(p, list, err) ==
  /\ ret' = IF p = "loop" THEN ret    \* the loop discards what Discover returns
            ELSE [ret EXCEPT ![p] = [agents |-> list, err |-> err]]
  /\ dpc' = [dpc EXCEPT ![p] = "idle"]
  /\ entriesCh' = [entriesCh EXCEPT ![p] = << >>]
  /\ qstate' = [qstate EXCEPT ![p] = "none"]
  /\ qleft' = [qleft EXCEPT ![p] = 0]
  /\ nsent' = [nsent EXCEPT ![p] = 0]
  /\ found' = [found EXCEPT ![p] = << >>]
  /\ seen' = [seen EXCEPT ![p] = {}]
  /\ loopPc' = IF p = "loop"
                 THEN (IF loopPc = "initial" THEN "select" ELSE "prune")
                 ELSE loopPc

\* case entry, ok := <-entriesCh with !ok: return agents, nil
DiscoverClosed(p) ==
  /\ dpc[p] = "select"
  /\ entriesCh[p] = << >>
  /\ qstate[p] = "closed"
  /\ Return(p, found[p], NoErr)
  /\ UNCHANGED <<agents, eventsCh, timeout, mu, ctxDone, pe, pev, interval,
                 tickLeft, tickPending, todo, rpc, rloc, dropped, announced>>
  /\ UNCHANGED nonDiscVars

\* a cancelled Discover that returns nil instead of the agents collected so far
DiscoverCtxDoneNil(p) ==
  /\ dpc[p] = "select"
  /\ ctxDone[p]
  /\ Return(p, << >>, CtxErr)
  /\ UNCHANGED <<agents, eventsCh, timeout, mu, ctxDone, pe, pev, interval,
                 tickLeft, tickPending, todo, rpc, rloc, dropped, announced>>
  /\ UNCHANGED nonDiscVars

\* case <-ctx.Done(): return agents, ctx.Err()
DiscoverCtxDone(p) ==
  /\ dpc[p] = "select"
  /\ ctxDone[p]
  /\ Return(p, found[p], CtxErr)
  /\ UNCHANGED <<agents, eventsCh, timeout, mu, ctxDone, pe, pev, interval,
                 tickLeft, tickPending, todo, rpc, rloc, dropped, announced>>
  /\ UNCHANGED nonDiscVars

\* the owner of a context cancels it
Cancel(p) ==
  /\ ~ctxDone[p]
  /\ IF p = "loop" THEN loopPc # "done" ELSE dpc[p] # "idle"
  /\ ctxDone' = [ctxDone EXCEPT ![p] = TRUE]
  /\ UNCHANGED <<agents, eventsCh, timeout, mu, dpc, entriesCh, qstate, qleft,
                 nsent, found, pe, pev, ret, seen, loopPc, interval, tickLeft,
                 tickPending, todo, rpc, rloc, dropped, announced>>
  /\ UNCHANGED nonDiscVars

\* ------------------------------------------------ StartContinuousDiscovery
TickerOn == loopPc \notin {"idle", "done"}

\* time.NewTicker(interval), then the initial c.Discover(ctx, 3*time.Second)
StartContinuousDiscovery(i) ==
  /\ loopPc = "idle"
  /\ loopPc' = "initial"
  /\ interval' = i
  /\ tickLeft' = i
  /\ tickPending' = FALSE
  /\ StartQuery("loop", QueryWindow)
  /\ UNCHANGED <<agents, eventsCh, timeout, mu, ctxDone, pe, pev, ret, todo, rpc,
                 rloc, dropped, announced>>
  /\ UNCHANGED nonDiscVars

\* the runtime fires the ticker; ticker.C holds one tick, further ones are dropped
TickerFire ==
  /\ TickerOn
  /\ tickLeft = 0
  /\ tickPending' = TRUE
  /\ tickLeft' = interval
  /\ UNCHANGED <<agents, eventsCh, timeout, mu, ctxDone, dpc, entriesCh, qstate,
                 qleft, nsent, found, pe, pev, ret, seen, loopPc, interval, todo,
                 rpc, rloc, dropped, announced>>
  /\ UNCHANGED nonDiscVars

\* case <-ticker.C: c.Discover(ctx, 3*time.Second)
LoopTick ==
  /\ loopPc = "select"
  /\ tickPending
  /\ tickPending' = FALSE
  /\ loopPc' = "tick"
  /\ StartQuery("loop", QueryWindow)
  /\ UNCHANGED <<agents, eventsCh, timeout, mu, ctxDone, pe, pev, ret, interval,
                 tickLeft, todo, rpc, rloc, dropped, announced>>
  /\ UNCHANGED nonDiscVars

\* a loop that leaves its select without any cancellation
LoopCtxDoneAnyway ==
  /\ loopPc = "select"
  /\ loopPc' = "done"
  /\ tickPending' = FALSE
  /\ tickLeft' = 0
  /\ UNCHANGED <<agents, eventsCh, timeout, mu, ctxDone, dpc, entriesCh, qstate,
                 qleft, nsent, found, pe, pev, ret, seen, interval, todo, rpc, rloc,
                 dropped, announced>>
  /\ UNCHANGED nonDiscVars

\* case <-ctx.Done(): return, with the deferred ticker.Stop()
LoopCtxDone ==
  /\ loopPc = "select"
  /\ ctxDone["loop"]
  /\ loopPc' = "done"
  /\ tickPending' = FALSE
  /\ tickLeft' = 0
  /\ UNCHANGED <<agents, eventsCh, timeout, mu, ctxDone, dpc, entriesCh, qstate,
                 qleft, nsent, found, pe, pev, ret, seen, interval, todo, rpc, rloc,
                 dropped, announced>>
  /\ UNCHANGED nonDiscVars

\* ------------------------------------------------------- pruneStaleAgents
\* c.mu.Lock(); the range starts over the entries the map holds
PruneLock ==
  /\ loopPc = "prune"
  /\ mu = Nil
  /\ mu' = "loop"
  /\ todo' = DOMAIN agents
  /\ loopPc' = "pruning"
  /\ UNCHANGED <<agents, eventsCh, timeout, ctxDone, dpc, entriesCh, qstate, qleft,
                 nsent, found, pe, pev, ret, seen, interval, tickLeft, tickPending,
                 rpc, rloc, dropped, announced>>
  /\ UNCHANGED nonDiscVars

\* a prune pass that forgets every agent it visits
PruneStepAll(id) ==
  /\ loopPc = "pruning"
  /\ id \in todo
  /\ todo' = todo \ {id}
  /\ agents' = Without(agents, id)
  /\ emitEvent([Type |-> "lost", ID |-> id])
  /\ misplaced' = (misplaced \/ owed[id] # << >>)
  /\ UNCHANGED <<timeout, mu, ctxDone, dpc, entriesCh, qstate, qleft, nsent, found,
                 pe, pev, ret, seen, loopPc, interval, tickLeft, tickPending, rpc,
                 rloc, announced>>
  /\ UNCHANGED <<closed, clearedIds, owed, otherVars>>

\* one iteration of the range, in the map's arbitrary order
PruneStep(id) ==
  /\ loopPc = "pruning"
  /\ id \in todo
  /\ todo' = todo \ {id}
  /\ IF IsStale(agents[id], timeout)
       THEN /\ agents' = Without(agents, id)
            /\ emitEvent([Type |-> "lost", ID |-> id])
            /\ misplaced' = (misplaced \/ owed[id] # << >>)
       ELSE UNCHANGED <<agents, eventsCh, dropped, panicked, misplaced>>
  /\ UNCHANGED <<timeout, mu, ctxDone, dpc, entriesCh, qstate, qleft, nsent, found,
                 pe, pev, ret, seen, loopPc, interval, tickLeft, tickPending, rpc,
                 rloc, announced>>
  /\ UNCHANGED <<closed, clearedIds, owed, otherVars>>

\* a prune pass that goes back to the loop's select with the lock still held
PruneUnlockKeep ==
  /\ loopPc = "pruning"
  /\ todo = {}
  /\ loopPc' = "select"
  /\ UNCHANGED <<agents, eventsCh, timeout, mu, ctxDone, dpc, entriesCh, qstate,
                 qleft, nsent, found, pe, pev, ret, seen, interval, tickLeft,
                 tickPending, todo, rpc, rloc, dropped, announced>>
  /\ UNCHANGED nonDiscVars

\* the range is over: the deferred c.mu.Unlock(), back to the loop's select
PruneUnlock ==
  /\ loopPc = "pruning"
  /\ todo = {}
  /\ mu' = Nil
  /\ loopPc' = "select"
  /\ UNCHANGED <<agents, eventsCh, timeout, ctxDone, dpc, entriesCh, qstate, qleft,
                 nsent, found, pe, pev, ret, seen, interval, tickLeft, tickPending,
                 todo, rpc, rloc, dropped, announced>>
  /\ UNCHANGED nonDiscVars

\* ------------------------------------------------------------ RemoveAgent
\* from c.mu.Lock() to c.mu.Unlock()
RemoveAgent(id) ==
  /\ rpc = "idle"
  /\ mu = Nil
  /\ rloc' = [id |-> id, exists |-> id \in DOMAIN agents]
  /\ agents' = IF id \in DOMAIN agents THEN Without(agents, id) ELSE agents
  /\ rpc' = "emit"
  /\ UNCHANGED <<eventsCh, timeout, mu, ctxDone, dpc, entriesCh, qstate, qleft,
                 nsent, found, pe, pev, ret, seen, loopPc, interval, tickLeft,
                 tickPending, todo, dropped, announced>>
  /\ owed' = IF id \in DOMAIN agents THEN [owed EXCEPT ![id] = Append(@, "lost")]
             ELSE owed
  /\ UNCHANGED <<closed, clearedIds, panicked, misplaced, otherVars>>

\* RemoveAgent that reports a loss whether or not the id was known
RemoveAgentEmitAlways ==
  /\ rpc = "emit"
  /\ rpc' = "idle"
  /\ rloc' = NoRemove
  /\ emitEvent([Type |-> "lost", ID |-> rloc.id])
  /\ UNCHANGED <<agents, timeout, mu, ctxDone, dpc, entriesCh, qstate, qleft, nsent,
                 found, pe, pev, ret, seen, loopPc, interval, tickLeft, tickPending,
                 todo, announced>>
  /\ owed' = [owed EXCEPT ![rloc.id] = Settle(@, "lost")]
  /\ misplaced' = (misplaced \/ Overtakes([Type |-> "lost", ID |-> rloc.id]))
  /\ UNCHANGED <<closed, clearedIds, otherVars>>

\* if exists { c.emitEvent(lost) }, return
RemoveAgentEmit ==
  /\ rpc = "emit"
  /\ rpc' = "idle"
  /\ rloc' = NoRemove
  /\ IF rloc.exists
       THEN /\ emitEvent([Type |-> "lost", ID |-> rloc.id])
            /\ owed' = [owed EXCEPT ![rloc.id] = Settle(@, "lost")]
            /\ misplaced' = (misplaced \/ Overtakes([Type |-> "lost", ID |-> rloc.id]))
       ELSE UNCHANGED <<eventsCh, dropped, panicked, owed, misplaced>>
  /\ UNCHANGED <<agents, timeout, mu, ctxDone, dpc, entriesCh, qstate, qleft, nsent,
                 found, pe, pev, ret, seen, loopPc, interval, tickLeft, tickPending,
                 todo, announced>>
  /\ UNCHANGED <<closed, clearedIds, otherVars>>

\* -------------------------------------------------------- GetAgents, Close
\* the orders in which a range over the map can visit the given ids
RECURSIVE Orders(_)
Orders(ids) ==
  IF ids = {} THEN {<< >>}
  ELSE UNION {{<<id>> \o rest : rest \in Orders(ids \ {id})} : id \in ids}

\* GetAgents that does not take the lock
GetAgentsNoLock(order) ==
  /\ order \in Orders(DOMAIN agents)
  /\ listed' = order
  /\ UNCHANGED nonGetVars

\* c.mu.RLock(), the range over c.agents, the deferred c.mu.RUnlock()
GetAgents(order) ==
  /\ mu = Nil
  /\ order \in Orders(DOMAIN agents)
  /\ listed' = order
  /\ UNCHANGED nonGetVars

\* close(c.eventsCh)
Close ==
  /\ ~closed
  /\ closed' = TRUE
  /\ UNCHANGED <<panicked, owed, misplaced, clearedIds, discVars, otherVars>>

\* ------------------------------------------------------------------- Clear
\* a Clear that forgets only the agents that are stale
ClearStale ==
  /\ mu = Nil
  /\ agents' = [id \in {i \in DOMAIN agents : ~IsStale(agents[i], timeout)} |-> agents[id]]
  /\ clearedIds' = clearedIds \cup DOMAIN agents
  /\ UNCHANGED <<eventsCh, timeout, mu, ctxDone, dpc, entriesCh, qstate, qleft,
                 nsent, found, pe, pev, ret, seen, loopPc, interval, tickLeft,
                 tickPending, todo, rpc, rloc, dropped, announced>>
  /\ UNCHANGED <<closed, panicked, owed, misplaced, otherVars>>

\* c.mu.Lock(), c.agents = make(map[string]*DiscoveredAgent), the deferred
\* c.mu.Unlock()
Clear ==
  /\ mu = Nil
  /\ agents' = EmptyMap
  /\ clearedIds' = clearedIds \cup DOMAIN agents
  /\ UNCHANGED <<eventsCh, timeout, mu, ctxDone, dpc, entriesCh, qstate, qleft,
                 nsent, found, pe, pev, ret, seen, loopPc, interval, tickLeft,
                 tickPending, todo, rpc, rloc, dropped, announced>>
  /\ UNCHANGED <<closed, panicked, owed, misplaced, otherVars>>

\* ------------------------------------------------------------ FileReceiver
\* The upload session manager behind the FileReceiver interface.  A file is the
\* set of its byte positions that are durably written.
ErrCodeUploadNotFound == "UPLOAD_NOT_FOUND"
ErrCodeUploadFailed == "UPLOAD_FAILED"

RECURSIVE SumOver(_, _)
SumOver(f, S) ==
  IF S = {} THEN 0
  ELSE LET x == CHOOSE y \in S : TRUE IN f[x] + SumOver(f, S \ {x})

\* a new session: nothing written, nothing acknowledged
NewUpload(dest, total) ==
  [dest |-> dest, totalSize |-> total, state |-> "Active",
   durable |-> [f \in Files |-> {}],
   offset |-> [f \in Files |-> 0],
   bytesWritten |-> 0]

\* the first position at or after k that is not durable
RECURSIVE Advance(_, _)
Advance(S, k) == IF k \in S THEN Advance(S, k + 1) ELSE k

TerminalStates == {"Completed", "Cancelled", "Failed"}

\* the interrupted sessions of the same logical upload (destination and size)
Matching(dest, total) ==
  {id \in DOMAIN uploads : /\ uploads[id].dest = dest
                           /\ uploads[id].totalSize = total
                           /\ uploads[id].state \notin TerminalStates}

\* an InitUpload that never looks for an interrupted session
InitUploadAlwaysNew(dest, total) ==
  /\ Cardinality(DOMAIN uploads) < Len(UploadIds)
  /\ LET id == UploadIds[Cardinality(DOMAIN uploads) + 1] IN
       /\ uploads' = (id :> NewUpload(dest, total)) @@ uploads
       /\ initRes' = [uploadId |-> id, resumeFrom |-> 0]
  /\ uploadErr' = NoErr
  /\ UNCHANGED nonUpVars

\* InitUpload: the interrupted session of this logical upload with what it holds
\* already, or a fresh uploadID with resumeFrom 0
InitUpload(dest, total) ==
  /\ IF Matching(dest, total) # {}
       THEN LET id == CHOOSE x \in Matching(dest, total) : TRUE IN
              /\ initRes' = [uploadId |-> id,
                             resumeFrom |-> uploads[id].bytesWritten]
              /\ UNCHANGED uploads
       ELSE /\ Cardinality(DOMAIN uploads) < Len(UploadIds)
            /\ LET id == UploadIds[Cardinality(DOMAIN uploads) + 1] IN
                 /\ uploads' = (id :> NewUpload(dest, total)) @@ uploads
                 /\ initRes' = [uploadId |-> id, resumeFrom |-> 0]
  /\ uploadErr' = NoErr
  /\ UNCHANGED nonUpVars

\* a manager that counts the bytes of every chunk it receives
UploadChunkCountReceived(id, f, off, n) ==
  /\ id \in DOMAIN uploads
  /\ uploads[id].state = "Active"
  /\ off + n <= uploads[id].totalSize
  /\ uploads' = [uploads EXCEPT ![id] =
                   [@ EXCEPT !.durable[f] = @ \cup (off .. off + n - 1),
                             !.bytesWritten = @ + n]]
  /\ uploadErr' = NoErr
  /\ UNCHANGED <<initRes, nonUpVars>>

\* an UploadChunk that accepts bytes beyond the announced size
UploadChunkNoLimit(id, f, off, n) ==
  /\ IF id \notin DOMAIN uploads
       THEN uploadErr' = ErrCodeUploadNotFound /\ UNCHANGED uploads
       ELSE LET u == uploads[id]
                written == u.durable[f] \cup (off .. off + n - 1)
                count == Cardinality(written)
                         + SumOver([g \in Files |-> Cardinality(u.durable[g])],
                                   Files \ {f})
                newOff == IF off <= u.offset[f] THEN Advance(written, u.offset[f])
                          ELSE u.offset[f]
            IN IF u.state # "Active"
                 THEN uploadErr' = ErrCodeUploadFailed /\ UNCHANGED uploads
                 ELSE /\ uploads' = [uploads EXCEPT ![id] =
                                       [u EXCEPT !.durable[f] = written,
                                                 !.offset[f] = newOff,
                                                 !.bytesWritten =
                                                    @ + (newOff - u.offset[f])]]
                      /\ uploadErr' = NoErr
  /\ UNCHANGED <<initRes, nonUpVars>>

\* UploadChunk: write n bytes at off of file f; the recorded offset of f, and
\* with it bytesWritten, advances over what is durable without a gap
UploadChunk(id, f, off, n) ==
  /\ IF id \notin DOMAIN uploads
       THEN uploadErr' = ErrCodeUploadNotFound /\ UNCHANGED uploads
       ELSE LET u == uploads[id]
                written == u.durable[f] \cup (off .. off + n - 1)
                count == Cardinality(written)
                         + SumOver([g \in Files |-> Cardinality(u.durable[g])],
                                   Files \ {f})
                newOff == IF off <= u.offset[f] THEN Advance(written, u.offset[f])
                          ELSE u.offset[f]
            IN IF u.state # "Active" \/ count > u.totalSize
                 THEN uploadErr' = ErrCodeUploadFailed /\ UNCHANGED uploads
                 ELSE /\ uploads' = [uploads EXCEPT ![id] =
                                       [u EXCEPT !.durable[f] = written,
                                                 !.offset[f] = newOff,
                                                 !.bytesWritten =
                                                    @ + (newOff - u.offset[f])]]
                      /\ uploadErr' = NoErr
  /\ UNCHANGED <<initRes, nonUpVars>>

\* a CompleteUpload that does not look at what was written
CompleteUploadAnyway(id) ==
  /\ IF id \notin DOMAIN uploads
       THEN uploadErr' = ErrCodeUploadNotFound /\ UNCHANGED uploads
       ELSE IF uploads[id].state = "Active"
              THEN /\ uploads' = [uploads EXCEPT ![id].state = "Completed"]
                   /\ uploadErr' = NoErr
              ELSE uploadErr' = ErrCodeUploadFailed /\ UNCHANGED uploads
  /\ UNCHANGED <<initRes, nonUpVars>>

\* CompleteUpload: Active -> Completing -> Completed when every byte is
\* acknowledged; otherwise UPLOAD_FAILED and the session as it was
CompleteUpload(id) ==
  /\ IF id \notin DOMAIN uploads
       THEN uploadErr' = ErrCodeUploadNotFound /\ UNCHANGED uploads
       ELSE IF /\ uploads[id].state = "Active"
               /\ uploads[id].bytesWritten = uploads[id].totalSize
              THEN /\ uploads' = [uploads EXCEPT ![id].state = "Completed"]
                   /\ uploadErr' = NoErr
              ELSE uploadErr' = ErrCodeUploadFailed /\ UNCHANGED uploads
  /\ UNCHANGED <<initRes, nonUpVars>>

\* a CancelUpload that cancels whatever state the session is in
CancelUploadAlways(id) ==
  /\ IF id \notin DOMAIN uploads
       THEN uploadErr' = ErrCodeUploadNotFound /\ UNCHANGED uploads
       ELSE /\ uploads' = [uploads EXCEPT ![id].state = "Cancelled"]
            /\ uploadErr' = NoErr
  /\ UNCHANGED <<initRes, nonUpVars>>

\* CancelUpload: Cancelled from any non-terminal state, a no-op on a terminal one
CancelUpload(id) ==
  /\ IF id \notin DOMAIN uploads
       THEN uploadErr' = ErrCodeUploadNotFound /\ UNCHANGED uploads
       ELSE /\ uploads' = IF uploads[id].state \in TerminalStates THEN uploads
                          ELSE [uploads EXCEPT ![id].state = "Cancelled"]
            /\ uploadErr' = NoErr
  /\ UNCHANGED <<initRes, nonUpVars>>

\* --------------------------------------------------------- protocol errors
ErrCodeUnknown == "UNKNOWN"
ErrCodeInvalidRequest == "INVALID_REQUEST"
ErrCodeShortcutNotFound == "SHORTCUT_NOT_FOUND"
ErrCodeShortcutExists == "SHORTCUT_EXISTS"
ErrCodeSteamNotRunning == "STEAM_NOT_RUNNING"
ErrCodeSteamNotFound == "STEAM_NOT_FOUND"
ErrCodePermissionDenied == "PERMISSION_DENIED"
ErrCodeDiskFull == "DISK_FULL"
ErrCodeTimeout == "TIMEOUT"
ErrCodeAgentBusy == "AGENT_BUSY"

\* the const block of error codes
ErrCodes ==
  {ErrCodeUnknown, ErrCodeInvalidRequest, ErrCodeUploadNotFound,
   ErrCodeUploadFailed, ErrCodeShortcutNotFound, ErrCodeShortcutExists,
   ErrCodeSteamNotRunning, ErrCodeSteamNotFound, ErrCodePermissionDenied,
   ErrCodeDiskFull, ErrCodeTimeout, ErrCodeAgentBusy}

\* a string that is none of the constants, as the code parameter may hold
OtherCode == "QUOTA_EXCEEDED"

\* Go error values.  An error variable is << >> (nil) or <<e>>.
NoCause == << >>
ErrorsNew(text) == [kind |-> "errorString", text |-> text]

\* NewProtocolError creates a new protocol error.
NewProtocolError(code, message, err) ==
  [kind |-> "ProtocolError", Code |-> code, Message |-> message, Err |-> err]

\* the Error() method of the two kinds of error
RECURSIVE Error(_)
Error(e) ==
  IF e.kind = "errorString" THEN e.text
  ELSE IF e.Err # NoCause
         THEN e.Code \o ": " \o e.Message \o " (" \o Error(e.Err[1]) \o ")"
         ELSE e.Code \o ": " \o e.Message

\* Unwrap
Unwrap(e) == e.Err

\* a conversion that leaves the cause behind altogether
ToErrorResponseNoDetails(e) ==
  [Code |-> e.Code, Message |-> e.Message, Details |-> ""]

\* ToErrorResponse converts a ProtocolError to an ErrorResponse.
ToErrorResponse(e) ==
  LET details == IF e.Err # NoCause THEN Error(e.Err[1]) ELSE ""
  IN [Code |-> e.Code, Message |-> e.Message, Details |-> details]

\* an ErrorFromCode that takes its messages from the sentinel errors
ErrorFromCodeSentinel(code, err) ==
  LET msg == CASE code = ErrCodeInvalidRequest -> "invalid request"
               [] code = ErrCodeUploadNotFound -> "upload not found"
               [] code = ErrCodeUploadFailed -> "upload failed"
               [] code = ErrCodeShortcutNotFound -> "shortcut not found"
               [] code = ErrCodeShortcutExists -> "shortcut already exists"
               [] code = ErrCodeSteamNotRunning -> "steam is not running"
               [] code = ErrCodeSteamNotFound -> "steam installation not found"
               [] code = ErrCodePermissionDenied -> "permission denied"
               [] code = ErrCodeDiskFull -> "disk full"
               [] code = ErrCodeTimeout -> "operation timed out"
               [] code = ErrCodeAgentBusy -> "agent is busy"
               [] OTHER -> "unknown error"
  IN NewProtocolError(code, msg, err)

\* ErrorFromCode creates a ProtocolError from an error code.
ErrorFromCode(code, err) ==
  LET msg == CASE code = ErrCodeInvalidRequest -> "invalid request"
               [] code = ErrCodeUploadNotFound -> "upload not found"
               [] code = ErrCodeUploadFailed -> "upload failed"
               [] code = ErrCodeShortcutNotFound -> "shortcut not found"
               [] code = ErrCodeShortcutExists -> "shortcut already exists"
               [] code = ErrCodeSteamNotRunning -> "steam is not running"
               [] code = ErrCodeSteamNotFound -> "steam installation not found"
               [] code = ErrCodePermissionDenied -> "permission denied"
               [] code = ErrCodeDiskFull -> "insufficient disk space"
               [] code = ErrCodeTimeout -> "operation timed out"
               [] code = ErrCodeAgentBusy -> "agent is busy with another operation"
               [] OTHER -> "unknown error"
  IN NewProtocolError(code, msg, err)

\* the causes and messages callers pass
Causes ==
  {NoCause, <<ErrorsNew("disk full")>>,
   <<NewProtocolError(ErrCodeTimeout, "operation timed out", <<ErrorsNew("test")>>)>>}
Messages == {"agent is busy"}

\* a caller builds an error with one of the constants and its own message
CallNewProtocolError(code, message, err) ==
  /\ perr' = <<NewProtocolError(code, message, err)>>
  /\ UNCHANGED <<wire, nonErrVars>>

\* a caller builds an error from a code string, its own or a received one
CallErrorFromCode(code, err) ==
  /\ perr' = <<ErrorFromCode(code, err)>>
  /\ UNCHANGED <<wire, nonErrVars>>

\* the error built last is converted for the wire
CallToErrorResponse ==
  /\ perr # << >>
  /\ wire' = <<ToErrorResponse(perr[1])>>
  /\ UNCHANGED <<perr, nonErrVars>>

\* ------------------------------------------------------- message envelope
MsgTypePing == "ping"
MsgTypeCancelUpload == "cancel_upload"
MsgTypePong == "pong"
MsgTypeUploadResponse == "upload_response"
MsgTypeError == "error"
MsgTypeUploadProgress == "upload_progress"

\* Go values handed over as payload: nil (NoPayload) or <<v>>, v a struct value
\* with its type and fields, or a value encoding/json has no encoding for
NoPayload == << >>
CancelUploadRequest(id) == [type |-> "CancelUploadRequest", UploadID |-> id]
ChanValue == [type |-> "chan"]

\* the json tags of the struct fields, and the omitempty ones
FieldTag ==
  [UploadID |-> "uploadId", Code |-> "code", Message |-> "message",
   Details |-> "details"]
OmitEmpty == {"Details"}

\* json text: well-formed or not, and for an object its members
JString(str) == [t |-> "string", s |-> str]
JNumber(str) == [t |-> "number", s |-> str]
NoMembers == [k \in {} |-> JString("")]
Truncated == [syntax |-> FALSE, obj |-> NoMembers]

\* json.Marshal of a payload value
Marshal(v) ==
  IF "type" \in DOMAIN v /\ v.type = "chan"
    THEN [data |-> Truncated,
          err |-> <<ErrorsNew("json: unsupported type: chan int")>>]
    ELSE LET fs == {f \in DOMAIN v \ {"type"} :
                      ~(f \in OmitEmpty /\ v[f] = "")}
             field(k) == CHOOSE f \in fs : FieldTag[f] = k
         IN [data |-> [syntax |-> TRUE,
                       obj |-> [k \in {FieldTag[f] : f \in fs} |->
                                  JString(v[field(k)])]],
             err |-> NoCause]

\* json.Unmarshal of json text into a struct value: members without a field are
\* skipped, a member of the wrong kind leaves its field alone and is reported
Unmarshal(data, v) ==
  IF ~data.syntax
    THEN [err |-> <<[kind |-> "json.SyntaxError",
                     text |-> "unexpected end of JSON input"]>>,
          v |-> v]
    ELSE LET fs == {f \in DOMAIN v \ {"type"} : FieldTag[f] \in DOMAIN data.obj}
             bad == {f \in fs : data.obj[FieldTag[f]].t # "string"}
         IN [err |-> IF bad = {} THEN NoCause
                     ELSE <<[kind |-> "json.UnmarshalTypeError",
                             text |-> "json: cannot unmarshal number into Go struct field of type string"]>>,
             v |-> [f \in DOMAIN v |->
                      IF f \in fs \ bad THEN data.obj[FieldTag[f]].s ELSE v[f]]]

\* a NewMessage that stamps every message with an id of its own
NewMessageOwnId(id, msgType, payload) ==
  IF payload # NoPayload /\ Marshal(payload[1]).err # NoCause
    THEN [msg |-> << >>, err |-> Marshal(payload[1]).err]
    ELSE [msg |-> <<[ID |-> "0", Type |-> msgType,
                     Payload |-> IF payload # NoPayload
                                   THEN <<Marshal(payload[1]).data>>
                                   ELSE << >>]>>,
          err |-> NoCause]

\* NewMessage creates a new message with the given type and payload.
NewMessage(id, msgType, payload) ==
  IF payload # NoPayload /\ Marshal(payload[1]).err # NoCause
    THEN [msg |-> << >>, err |-> Marshal(payload[1]).err]
    ELSE [msg |-> <<[ID |-> id, Type |-> msgType,
                     Payload |-> IF payload # NoPayload
                                   THEN <<Marshal(payload[1]).data>>
                                   ELSE << >>]>>,
          err |-> NoCause]

\* ParsePayload unmarshals the payload into the given type.
ParsePayload(m, v) ==
  IF m.Payload = << >> THEN [err |-> NoCause, v |-> v]
  ELSE Unmarshal(m.Payload[1], v)

\* The exchange around the envelope: a Hub that allocates a fresh correlation
\* id for every request, an Agent that answers a request with its id and stamps
\* events with a fresh id.
FreshId == "m" \o ToString(nextId + 1)
InFlightIds == {inflight[i].ID : i \in 1..Len(inflight)}
ResponseType(t) == IF t = MsgTypePing THEN MsgTypePong ELSE MsgTypeUploadResponse
RequestPayloads ==
  (MsgTypePing :> {NoPayload})
  @@ (MsgTypeCancelUpload :> {<<CancelUploadRequest("u1")>>, <<ChanValue>>})
Remove(q, i) == SubSeq(q, 1, i - 1) \o SubSeq(q, i + 1, Len(q))

SendRequest(msgType, payload) ==
  /\ nextId < MaxIds
  /\ nextId' = nextId + 1
  /\ LET r == NewMessage(FreshId, msgType, payload) IN
       inflight' = IF r.err = NoCause THEN Append(inflight, r.msg[1])
                   ELSE inflight
  /\ UNCHANGED <<last, lastEvent, parsed, nonMsgVars>>

Respond(i) ==
  /\ i \in 1..Len(inflight)
  /\ LET req == inflight[i]
         r == NewMessage(req.ID, ResponseType(req.Type), NoPayload)
     IN last' = <<[req |-> req, resp |-> r.msg[1]]>>
  /\ inflight' = Remove(inflight, i)
  /\ UNCHANGED <<nextId, lastEvent, parsed, nonMsgVars>>

RespondError(i, code) ==
  /\ i \in 1..Len(inflight)
  /\ LET req == inflight[i]
         r == NewMessage(req.ID, MsgTypeError,
                         <<ToErrorResponse(ErrorFromCode(code, NoCause))>>)
     IN last' = <<[req |-> req, resp |-> r.msg[1]]>>
  /\ inflight' = Remove(inflight, i)
  /\ UNCHANGED <<nextId, lastEvent, parsed, nonMsgVars>>

EmitProgress ==
  /\ nextId < MaxIds
  /\ nextId' = nextId + 1
  /\ lastEvent' = NewMessage(FreshId, MsgTypeUploadProgress,
                         <<CancelUploadRequest("u1")>>).msg
  /\ UNCHANGED <<inflight, last, parsed, nonMsgVars>>

\* what arrives from the wire as the payload of a cancel_upload message, and
\* the values a handler decodes into
WirePayloads ==
  {<< >>, <<Marshal(CancelUploadRequest("u1")).data>>, <<Truncated>>,
   <<[syntax |-> TRUE, obj |-> ("uploadId" :> JNumber("7"))]>>}
Targets == {CancelUploadRequest(""), CancelUploadRequest("u0")}

CallParsePayload(payload, v) ==
  /\ LET m == [ID |-> "m1", Type |-> MsgTypeCancelUpload, Payload |-> payload]
         r == ParsePayload(m, v)
     IN parsed' = <<[m |-> m, target |-> v, err |-> r.err, v |-> r.v]>>
  /\ UNCHANGED <<nextId, inflight, last, lastEvent, nonMsgVars>>

\* ---------------------------------------------------------------- shortcuts
\* steam.GetRemoteUsers lists the users in a fixed order
UserList == <<"user1", "user2">>
Games == {"game1", "game2"}

\* what the device and the library do for one user during a call
Outcomes == {"ok", "nopath", "loadfail", "addfail", "savefail"}

\* the executable of a game, as the caller passes it
Exes == {"/g/run"}

\* fmt.Sprintf("\"%s\"", s): Steam expects quoted paths
Quoted(str) == "\"" \o str \o "\""

\* shortcut.CalculateAppID(exe, name): a checksum over the characters of exe
\* followed by name, with the top bit set.  The library computes a CRC-32; the
\* width is cut down here, the shape (every character counts, in order) is kept.
CharCode ==
  ("g" :> 103) @@ ("a" :> 97) @@ ("m" :> 109) @@ ("e" :> 101) @@ ("1" :> 49)
  @@ ("2" :> 50) @@ ("/" :> 47) @@ ("r" :> 114) @@ ("u" :> 117) @@ ("n" :> 110)
  @@ ("\"" :> 34)
RECURSIVE Checksum(_, _, _)
Checksum(str, i, h) ==
  IF i > Len(str) THEN h
  ELSE Checksum(str, i + 1, (h * 31 + CharCode[SubSeq(str, i, i)]) % 32768)
CalculateAppID(exe, name) == 32768 + Checksum(exe \o name, 1, 0)

\* shortcut.NewShortcut(name, quotedExe, ...) with the fields the option sets
NewShortcut(name, quotedExe, quotedStartDir, appID) ==
  [AppName |-> name, Exe |-> quotedExe, StartDir |-> quotedStartDir,
   Appid |-> appID, AllowOverlay |-> 1]

\* the loop over the users: load or create the collection, add, save
RECURSIVE AddForUsers(_, _, _, _)
AddForUsers(users, st, sc, outcome) ==
  IF users = << >> THEN [stores |-> st, err |-> NoErr]
  ELSE LET user == Head(users)
           o == outcome[user]
       IN IF o = "nopath" THEN AddForUsers(Tail(users), st, sc, outcome)
          ELSE IF o = "loadfail" /\ st[user].has
            THEN [stores |-> st, err |-> "failed to load shortcuts for user"]
          ELSE IF o = "addfail"
            THEN [stores |-> st, err |-> "failed to add shortcut for user"]
          ELSE IF o = "savefail"
            THEN [stores |-> st, err |-> "failed to save shortcuts for user"]
          ELSE AddForUsers(Tail(users),
                           [st EXCEPT ![user] =
                              [has |-> TRUE, scs |-> Append(@.scs, sc)]],
                           sc, outcome)

\* an AddShortcutWithArtwork that computes the app id from the path as given
AddShortcutWithArtworkPlainId(name, exe, connect, users, outcome) ==
  /\ \A u \in SteamUsers : Len(stores[u].scs) < MaxShortcuts
  /\ IF ~connect
       THEN scRet' = "failed to connect" /\ UNCHANGED stores
     ELSE IF users = "error"
       THEN scRet' = "failed to get Steam users" /\ UNCHANGED stores
     ELSE IF users = "none"
       THEN scRet' = "no Steam users found on remote device" /\ UNCHANGED stores
     ELSE LET appID == CalculateAppID(exe, name)
              sc == NewShortcut(name, Quoted(exe), Quoted(exe), appID)
              r == AddForUsers(UserList, stores, sc, outcome)
          IN /\ stores' = r.stores
             /\ scRet' = r.err
  /\ UNCHANGED nonScVars

\* AddShortcutWithArtwork adds a Steam shortcut on a remote device (no artwork);
\* the start directory is taken to be the executable's path
AddShortcutWithArtwork(name, exe, connect, users, outcome) ==
  /\ \A u \in SteamUsers : Len(stores[u].scs) < MaxShortcuts
  /\ IF ~connect
       THEN scRet' = "failed to connect" /\ UNCHANGED stores
     ELSE IF users = "error"
       THEN scRet' = "failed to get Steam users" /\ UNCHANGED stores
     ELSE IF users = "none"
       THEN scRet' = "no Steam users found on remote device" /\ UNCHANGED stores
     ELSE LET quotedExe == Quoted(exe)
              quotedStartDir == Quoted(exe)
              appID == CalculateAppID(quotedExe, name)
              sc == NewShortcut(name, quotedExe, quotedStartDir, appID)
              r == AddForUsers(UserList, stores, sc, outcome)
          IN /\ stores' = r.stores
             /\ scRet' = r.err
  /\ UNCHANGED nonScVars

\* ----------------------------------------------------------- RemoveShortcut
\* what the device and the library do for one user during a RemoveShortcut
RemoveOutcomes == {"ok", "nopath", "loadfail", "savefail"}

\* a filter that skips only the first shortcut of the given name
RECURSIVE KeptButFirst(_, _)
KeptButFirst(scs, name) ==
  IF scs = << >> THEN << >>
  ELSE IF Head(scs).AppName = name THEN Tail(scs)
  ELSE <<Head(scs)>> \o KeptButFirst(Tail(scs), name)

\* the range over shortcuts.Shortcuts: if sc.AppName == name { continue }
Kept(scs, name) == SelectSeq(scs, LAMBDA sc : sc.AppName # name)

\* the orders in which the kept shortcuts can end up in the new collection;
\* the order of the range and of the saved file is the library's
Arrangements(scs) ==
  {[i \in 1..Len(scs) |-> scs[o[i]]] : o \in Orders(1..Len(scs))}

\* the loop over the users: which files are rewritten, and the error returned
RECURSIVE RemoveForUsers(_, _, _)
RemoveForUsers(users, st, outcome) ==
  IF users = << >> THEN [saved |-> {}, err |-> NoErr]
  ELSE LET user == Head(users)
           o == outcome[user]
       IN IF ~st[user].has \/ o \in {"nopath", "loadfail"}
            THEN RemoveForUsers(Tail(users), st, outcome)
          ELSE IF o = "savefail"
            THEN [saved |-> {}, err |-> "failed to save shortcuts for user"]
          ELSE LET r == RemoveForUsers(Tail(users), st, outcome)
               IN [saved |-> {user} \cup r.saved, err |-> r.err]

\* RemoveShortcut removes a Steam shortcut from a remote device
RemoveShortcut(name, connect, users, outcome) ==
  /\ IF ~connect
       THEN scRet' = "failed to connect" /\ UNCHANGED stores
     ELSE IF users = "error"
       THEN scRet' = "failed to get Steam users" /\ UNCHANGED stores
     ELSE LET r == RemoveForUsers(IF users = "none" THEN << >> ELSE UserList,
                                  stores, outcome)
              new(u) == IF u \in r.saved
                          THEN {[has |-> TRUE, scs |-> a] :
                                  a \in Arrangements(Kept(stores[u].scs, name))}
                          ELSE {stores[u]}
          IN /\ scRet' = r.err
             /\ stores' \in {st \in [SteamUsers -> UNION {new(u) : u \in SteamUsers}] :
                               \A u \in SteamUsers : st[u] \in new(u)}
  /\ UNCHANGED nonScVars

\* ------------------------------------------- processEntry on any TXT records
\* the TXT records an announcement may carry, and the announcements built of them
TxtRecords ==
  {<<"i", "d", "=", "a">>, <<"i", "d", "=">>, <<"n", "a", "m", "e", "=", "A">>, <<"n", "a", "m", "e", "=">>,
   <<"p", "l", "a", "t", "f", "o", "r", "m", "=", "L">>, <<"z", "z">>}
FieldLists == UNION {[1..k -> TxtRecords] : k \in 0..MaxFields}
EntryWith(fields) ==
  [Name |-> <<"n", "a">>, Host |-> <<"h", "a">>, Port |-> 1,
   AddrV4 |-> "v4a", AddrV6 |-> Nil, InfoFields |-> fields]

\* processEntry up to the fallbacks, for one announcement
ParseEntry(entry) ==
  /\ lastEntry' = <<entry>>
  /\ lastInfo' = <<AgentInfoOf(entry)>>
  /\ UNCHANGED nonEntVars

\* ------------------------------------------------------ RefreshSteamLibrary
\* remote.NewClient and client.Connect
RefreshConnect(host, connect) ==
  /\ rsPc = "idle"
  /\ rsCalls < MaxRestarts
  /\ rsCalls' = rsCalls + 1
  /\ rsHost' = host
  /\ rsIssued' = 0
  /\ rsOut' = "none"
  /\ IF connect THEN rsPc' = "connected" /\ rsRet' = "none"
     ELSE rsPc' = "idle" /\ rsRet' = "failed to connect"
  /\ UNCHANGED <<steam, nonSteamVars>>

\* client.RunCommand(`steam -shutdown >/dev/null 2>&1 || true`): the command
\* has run on the device or the session failed; the result is not looked at
RefreshRunCommand(out) ==
  /\ rsPc = "connected"
  /\ rsPc' = "ran"
  /\ rsOut' = out
  /\ rsIssued' = rsIssued + 1
  /\ steam' = IF out = "ok" /\ steam[rsHost] = "running"
                THEN [steam EXCEPT ![rsHost] = "stopping"] ELSE steam
  /\ UNCHANGED <<rsHost, rsRet, rsCalls, nonSteamVars>>

\* a return that comes only once Steam is running again
RefreshReturnWhenBack ==
  /\ rsPc = "ran"
  /\ steam[rsHost] = "running"
  /\ rsPc' = "idle"
  /\ rsRet' = NoErr
  /\ UNCHANGED <<steam, rsHost, rsOut, rsIssued, rsCalls, nonSteamVars>>

\* return nil (and the deferred client.Close)
RefreshReturn ==
  /\ rsPc = "ran"
  /\ rsPc' = "idle"
  /\ rsRet' = NoErr
  /\ UNCHANGED <<steam, rsHost, rsOut, rsIssued, rsCalls, nonSteamVars>>

\* the device: Steam closes down, and in Gaming Mode the session manager
\* starts it again
SteamExit(host) ==
  /\ steam[host] = "stopping"
  /\ steam' = [steam EXCEPT ![host] = "stopped"]
  /\ UNCHANGED <<rsHost, rsPc, rsRet, rsOut, rsIssued, rsCalls, nonSteamVars>>

SteamRelaunch(host) ==
  /\ steam[host] = "stopped"
  /\ steam' = [steam EXCEPT ![host] = "running"]
  /\ UNCHANGED <<rsHost, rsPc, rsRet, rsOut, rsIssued, rsCalls, nonSteamVars>>

\* -------------------------------------------------------- scanNetworkForSSH
LocalIPs == {"", "10.0.0.7"}

\* strings.Split(localIP, ".")
RECURSIVE SplitDots(_, _, _, _)
SplitDots(str, i, cur, acc) ==
  IF i > Len(str) THEN Append(acc, cur)
  ELSE IF SubSeq(str, i, i) = "."
         THEN SplitDots(str, i + 1, "", Append(acc, cur))
         ELSE SplitDots(str, i + 1, cur \o SubSeq(str, i, i), acc)

\* strings.Join(parts, ".")
RECURSIVE JoinDots(_)
JoinDots(parts) ==
  IF parts = << >> THEN ""
  ELSE IF Len(parts) = 1 THEN parts[1]
  ELSE parts[1] \o "." \o JoinDots(Tail(parts))

\* fmt.Sprintf("%s.%d", baseIP, i)
ScanIP(base, i) == base \o "." \o ToString(i)

NetworkDevice(ip, hostname) == [IP |-> ip, Hostname |-> hostname, HasSSH |-> TRUE]

\* getHostname(ip): the name the resolver has for the address, "" when it
\* has none
GetHostname(i) == IF i = 1 THEN "deck" ELSE ""

\* probes that hold a value of the semaphore
InFlight == {i \in 1..MaxHost : probePc[i] \in {"probe", "lock", "append", "release"}}

\* getLocalIP, the two early returns, strings.Join, make(chan struct{}, 50)
ScanStart(localIP) ==
  /\ scanPc \in {"idle", "returned"}
  /\ LET parts == SplitDots(localIP, 1, "", << >>) IN
       IF localIP = "" \/ Len(parts) # 4
         THEN /\ scanPc' = "returned"
              /\ baseIP' = ""
              /\ scanRet' = << << >> >>
         ELSE /\ scanPc' = "spawn"
              /\ baseIP' = JoinDots(SubSeq(parts, 1, 3))
              /\ scanRet' = << >>
  /\ scanI' = 0
  /\ probePc' = [i \in 1..MaxHost |-> "unborn"]
  /\ semaphore' = 0
  /\ wg' = 0
  /\ scanMu' = 0
  /\ scanFound' = << >>
  /\ probes' = [i \in 1..MaxHost |-> 0]
  /\ sshOpen' = {}
  /\ UNCHANGED nonScanVars

\* for i := 1; i <= 254; i++ { wg.Add(1); go func(ip string) {...}(...) }
ScanSpawn ==
  /\ scanPc = "spawn"
  /\ IF scanI < MaxHost
       THEN /\ scanI' = scanI + 1
            /\ wg' = wg + 1
            /\ probePc' = [probePc EXCEPT ![scanI + 1] = "acquire"]
            /\ UNCHANGED scanPc
       ELSE /\ scanPc' = "wait"
            /\ UNCHANGED <<scanI, wg, probePc>>
  /\ UNCHANGED <<baseIP, semaphore, scanMu, scanFound, probes, sshOpen, scanRet,
                 nonScanVars>>

\* a send on the semaphore that does not look at its capacity
ProbeAcquireNoGate(i) ==
  /\ probePc[i] = "acquire"
  /\ semaphore' = semaphore + 1
  /\ probePc' = [probePc EXCEPT ![i] = "probe"]
  /\ UNCHANGED <<scanPc, baseIP, scanI, wg, scanMu, scanFound, probes, sshOpen,
                 scanRet, nonScanVars>>

\* semaphore <- struct{}{}: blocks while the channel is full
ProbeAcquire(i) ==
  /\ probePc[i] = "acquire"
  /\ semaphore < MaxInFlight
  /\ semaphore' = semaphore + 1
  /\ probePc' = [probePc EXCEPT ![i] = "probe"]
  /\ UNCHANGED <<scanPc, baseIP, scanI, wg, scanMu, scanFound, probes, sshOpen,
                 scanRet, nonScanVars>>

\* if hasSSH(ip) { hostname := getHostname(ip) ...
ProbeHasSSH(i, open) ==
  /\ probePc[i] = "probe"
  /\ probes' = [probes EXCEPT ![i] = @ + 1]
  /\ sshOpen' = IF open THEN sshOpen \cup {ScanIP(baseIP, i)} ELSE sshOpen
  /\ probePc' = [probePc EXCEPT ![i] = IF open THEN "lock" ELSE "release"]
  /\ UNCHANGED <<scanPc, baseIP, scanI, semaphore, wg, scanMu, scanFound, scanRet,
                 nonScanVars>>

\* mu.Lock()
ProbeLock(i) ==
  /\ probePc[i] = "lock"
  /\ scanMu = 0
  /\ scanMu' = i
  /\ probePc' = [probePc EXCEPT ![i] = "append"]
  /\ UNCHANGED <<scanPc, baseIP, scanI, semaphore, wg, scanFound, probes, sshOpen,
                 scanRet, nonScanVars>>

\* found = append(found, NetworkDevice{...}); mu.Unlock()
ProbeAppend(i) ==
  /\ probePc[i] = "append"
  /\ scanFound' = Append(scanFound, NetworkDevice(ScanIP(baseIP, i), GetHostname(i)))
  /\ scanMu' = 0
  /\ probePc' = [probePc EXCEPT ![i] = "release"]
  /\ UNCHANGED <<scanPc, baseIP, scanI, semaphore, wg, probes, sshOpen, scanRet,
                 nonScanVars>>

\* defer func() { <-semaphore }()
ProbeRelease(i) ==
  /\ probePc[i] = "release"
  /\ semaphore' = semaphore - 1
  /\ probePc' = [probePc EXCEPT ![i] = "done"]
  /\ UNCHANGED <<scanPc, baseIP, scanI, wg, scanMu, scanFound, probes, sshOpen,
                 scanRet, nonScanVars>>

\* defer wg.Done()
ProbeDone(i) ==
  /\ probePc[i] = "done"
  /\ wg' = wg - 1
  /\ probePc' = [probePc EXCEPT ![i] = "exited"]
  /\ UNCHANGED <<scanPc, baseIP, scanI, semaphore, scanMu, scanFound, probes,
                 sshOpen, scanRet, nonScanVars>>

\* wg.Wait(); return found
ScanReturn ==
  /\ scanPc = "wait"
  /\ wg = 0
  /\ scanPc' = "returned"
  /\ scanRet' = <<scanFound>>
  /\ UNCHANGED <<baseIP, scanI, probePc, semaphore, wg, scanMu, scanFound, probes,
                 sshOpen, nonScanVars>>

\* ------------------------------------ connectToDevice, disconnectDevice
\* deviceList.OnSelected
SelectDevice(k) ==
  /\ uiPc = << >>
  /\ k \in 1..Len(devices)
  /\ selected' = <<devices[k]>>
  /\ UNCHANGED <<devices, devClient, devConnected, connPc, connClient, clients,
                 closedClients, uiPc, nonDevVars>>

\* connectBtn: go connectToDevice(State.SelectedDevice); the goroutine runs
\* device.NewClient, one connect of a device at a time
ConnectNewClient(ok) ==
  /\ uiPc = << >>
  /\ selected # << >>
  /\ connPc[selected[1]] = "none"
  /\ clients < MaxConnects
  /\ IF ok
       THEN /\ clients' = clients + 1
            /\ connClient' = [connClient EXCEPT ![selected[1]] = clients + 1]
            /\ connPc' = [connPc EXCEPT ![selected[1]] = "connect"]
       ELSE UNCHANGED <<clients, connClient, connPc>>
  /\ UNCHANGED <<devices, selected, devClient, devConnected, closedClients, uiPc,
                 nonDevVars>>

\* client.Connect()
ConnectDial(d, ok) ==
  /\ connPc[d] = "connect"
  /\ IF ok
       THEN /\ connPc' = [connPc EXCEPT ![d] = "assign"]
            /\ UNCHANGED connClient
       ELSE /\ connPc' = [connPc EXCEPT ![d] = "none"]
            /\ connClient' = [connClient EXCEPT ![d] = 0]
  /\ UNCHANGED <<devices, selected, devClient, devConnected, clients,
                 closedClients, uiPc, nonDevVars>>

\* dev.Client = client
ConnectSetClient(d) ==
  /\ connPc[d] = "assign"
  /\ devClient' = [devClient EXCEPT ![d] = connClient[d]]
  /\ connPc' = [connPc EXCEPT ![d] = "mark"]
  /\ UNCHANGED <<devices, selected, devConnected, connClient, clients,
                 closedClients, uiPc, nonDevVars>>

\* dev.Connected = true, and the return
ConnectSetConnected(d) ==
  /\ connPc[d] = "mark"
  /\ devConnected' = [devConnected EXCEPT ![d] = TRUE]
  /\ connPc' = [connPc EXCEPT ![d] = "none"]
  /\ connClient' = [connClient EXCEPT ![d] = 0]
  /\ UNCHANGED <<devices, selected, devClient, clients, closedClients, uiPc,
                 nonDevVars>>

\* disconnectDevice: if dev.Client != nil { dev.Client.Close(); dev.Client = nil }
DisconnectClose(d, remove) ==
  /\ IF devClient[d] # 0
       THEN /\ closedClients' = closedClients \cup {devClient[d]}
            /\ devClient' = [devClient EXCEPT ![d] = 0]
       ELSE UNCHANGED <<closedClients, devClient>>
  /\ uiPc' = <<[dev |-> d, remove |-> remove]>>

\* disconnectBtn: the device is selected and marked Connected
ClickDisconnect ==
  /\ uiPc = << >>
  /\ selected # << >>
  /\ devConnected[selected[1]]
  /\ DisconnectClose(selected[1], FALSE)
  /\ UNCHANGED <<devices, selected, devConnected, connPc, connClient, clients,
                 nonDevVars>>

\* removeBtn: removeDevice calls disconnectDevice first
ClickRemove ==
  /\ uiPc = << >>
  /\ selected # << >>
  /\ DisconnectClose(selected[1], TRUE)
  /\ UNCHANGED <<devices, selected, devConnected, connPc, connClient, clients,
                 nonDevVars>>

\* devices = append(devices[:i], devices[i+1:]...)
RemoveFromList(list, d) == SelectSeq(list, LAMBDA x : x # d)

\* disconnectDevice: dev.Connected = false; in removeDevice the device then
\* leaves the list and the selection is cleared
DisconnectSetConnected ==
  /\ uiPc # << >>
  /\ devConnected' = [devConnected EXCEPT ![uiPc[1].dev] = FALSE]
  /\ IF uiPc[1].remove
       THEN /\ devices' = RemoveFromList(devices, uiPc[1].dev)
            /\ selected' = << >>
       ELSE UNCHANGED <<devices, selected>>
  /\ uiPc' = << >>
  /\ UNCHANGED <<devClient, connPc, connClient, clients, closedClients, nonDevVars>>

\* ------------------------------------------------------------- uploadGame
\* getFilesToUpload: filepath.Walk visits the folder in lexical order
FileName(i) == "f" \o ToString(i)
FolderLists ==
  {[k \in 1..Len(ix) |-> FileName(ix[k])] :
     ix \in {q \in UNION {[1..n -> 1..MaxFiles] : n \in 0..MaxFiles} :
               \A k \in 1..Len(q) - 1 : q[k] < q[k + 1]}}

\* uploadBtn: go uploadGame(...); dev.Client.MkdirAll(remoteGamePath)
UploadGameStart(mkdirOk) ==
  /\ ugPc \in {"idle", "done"}
  /\ ugPc' = IF mkdirOk THEN "scan" ELSE "done"
  /\ ugResult' = IF mkdirOk THEN "none" ELSE "error"
  /\ ugFiles' = << >>
  /\ ugI' = 0
  /\ ugDirFailed' = {}
  /\ ugTried' = << >>
  /\ ugSent' = << >>
  /\ ugShortcuts' = 0
  /\ ugProgress' = Ratio(0, 1)
  /\ UNCHANGED nonUgVars

\* files, err := getFilesToUpload(localPath)
UploadGameScan(files, ok) ==
  /\ ugPc = "scan"
  /\ IF ok
       THEN /\ ugFiles' = files
            /\ ugPc' = "loop"
            /\ UNCHANGED ugResult
       ELSE /\ ugPc' = "done"
            /\ ugResult' = "error"
            /\ UNCHANGED ugFiles
  /\ UNCHANGED <<ugI, ugDirFailed, ugTried, ugSent, ugShortcuts, ugProgress, nonUgVars>>

\* an iteration that goes on to the next file when UploadFile fails
UploadGameFileKeepGoing(mkdirOk, ok) ==
  /\ ugPc = "loop"
  /\ ugI < Len(ugFiles)
  /\ LET file == ugFiles[ugI + 1] IN
       /\ ugDirFailed' = IF mkdirOk THEN ugDirFailed ELSE ugDirFailed \cup {file}
       /\ ugTried' = Append(ugTried, file)
       /\ ugSent' = IF ok THEN Append(ugSent, file) ELSE ugSent
       /\ ugI' = ugI + 1
       /\ UNCHANGED <<ugPc, ugResult>>
  /\ ugProgress' = Ratio(ugI, Len(ugFiles))
  /\ UNCHANGED <<ugFiles, ugShortcuts, nonUgVars>>

\* one iteration of the range over files: MkdirAll(remoteDir), whose result
\* is dropped, progressBar.SetValue(float64(i) / float64(totalFiles)), then
\* UploadFile
UploadGameFile(mkdirOk, ok) ==
  /\ ugPc = "loop"
  /\ ugI < Len(ugFiles)
  /\ ugProgress' = Ratio(ugI, Len(ugFiles))
  /\ LET file == ugFiles[ugI + 1] IN
       /\ ugDirFailed' = IF mkdirOk THEN ugDirFailed ELSE ugDirFailed \cup {file}
       /\ ugTried' = Append(ugTried, file)
       /\ IF ok
            THEN /\ ugSent' = Append(ugSent, file)
                 /\ ugI' = ugI + 1
                 /\ UNCHANGED <<ugPc, ugResult>>
            ELSE /\ ugPc' = "done"
                 /\ ugResult' = "error"
                 /\ UNCHANGED <<ugSent, ugI>>
  /\ UNCHANGED <<ugFiles, ugShortcuts, nonUgVars>>

\* the range is over: progressBar.SetValue(0.9)
UploadGameBeforeShortcut ==
  /\ ugPc = "loop"
  /\ ugI = Len(ugFiles)
  /\ ugProgress' = Ratio(9, 10)
  /\ ugPc' = "shortcut"
  /\ UNCHANGED <<ugFiles, ugI, ugDirFailed, ugTried, ugSent, ugShortcuts, ugResult,
                 nonUgVars>>

\* createShortcut, then the error, or progressBar.SetValue(1.0) and the
\* Success dialog
UploadGameShortcut(ok) ==
  /\ ugPc = "shortcut"
  /\ ugShortcuts' = ugShortcuts + 1
  /\ ugPc' = "done"
  /\ ugResult' = IF ok THEN "success" ELSE "error"
  /\ ugProgress' = IF ok THEN Ratio(1, 1) ELSE ugProgress
  /\ UNCHANGED <<ugFiles, ugI, ugDirFailed, ugTried, ugSent, nonUgVars>>

\* ----------------------------------------------------------- environment
\* a subscriber receives from Events()
Recv ==
  /\ eventsCh # << >>
  /\ eventsCh' = Tail(eventsCh)
  /\ UNCHANGED <<agents, timeout, mu, ctxDone, dpc, entriesCh, qstate, qleft, nsent,
                 found, pe, pev, ret, seen, loopPc, interval, tickLeft, tickPending,
                 todo, rpc, rloc, dropped, announced>>
  /\ UNCHANGED nonDiscVars

\* one unit of time passes; a timer that is due fires first
Tick ==
  /\ \A p \in Procs : qstate[p] = "running" => qleft[p] > 0
  /\ TickerOn => tickLeft > 0
  /\ qleft' = [p \in Procs |-> IF qstate[p] = "running" THEN qleft[p] - 1
                               ELSE qleft[p]]
  /\ tickLeft' = IF TickerOn THEN tickLeft - 1 ELSE tickLeft
  /\ agents' = [k \in DOMAIN agents |-> [agents[k] EXCEPT !.LastSeen = Older(@)]]
  /\ pe' = [p \in Procs |->
              IF dpc[p] = "lock" THEN [pe[p] EXCEPT !.LastSeen = Older(@)]
              ELSE pe[p]]
  /\ UNCHANGED <<eventsCh, timeout, mu, ctxDone, dpc, entriesCh, qstate, nsent,
                 found, pev, ret, seen, loopPc, interval, tickPending, todo, rpc,
                 rloc, dropped, announced>>
  /\ UNCHANGED nonDiscVars

\* ----------------------------------------------------------- specifications
\* the network hands a query one announcement at a time
Announce(p, es, max) ==
  \E e \in es : entriesCh[p] = << >> /\ QuerySend(p, e, max)

\* no event is waiting in Events()
Drained == eventsCh = << >>

\* Spec: two goroutines call Discover at the same time; a subscriber takes each
\* event before anything else happens
Next ==
  \/ Recv
  \/ Drained /\ \E p \in Callers, t \in CallerWindows : CallDiscover(p, t)
  \/ Drained /\ \E p \in Callers : Announce(p, Entries, MaxAnnounce)
  \/ Drained /\ \E p \in Callers : QueryFail(p)
  \/ Drained /\ \E p \in Callers : QueryTimeout(p)
  \/ Drained /\ \E p \in Callers : DiscoverRecv(p)
  \/ Drained /\ \E p \in Callers : ProcessEntryCommit(p)
  \/ Drained /\ \E p \in Callers : ProcessEntryEmit(p)
  \/ Drained /\ \E p \in Callers : DiscoverClosed(p)
  \/ Drained /\ Tick

Spec == Init /\ [][Next]_vars

\* SpecCall: one goroutine calls Discover and may cancel it, another calls
\* RemoveAgent; a subscriber takes each event before anything else happens
NextCall ==
  \/ Recv
  \/ Drained /\ \E t \in CallerWindows : CallDiscover("caller1", t)
  \/ Drained /\ Announce("caller1", Entries, MaxAnnounce)
  \/ Drained /\ Cancel("caller1")
  \/ Drained /\ QueryFail("caller1")
  \/ Drained /\ QueryTimeout("caller1")
  \/ Drained /\ DiscoverRecv("caller1")
  \/ Drained /\ ProcessEntryCommit("caller1")
  \/ Drained /\ ProcessEntryEmit("caller1")
  \/ Drained /\ DiscoverClosed("caller1")
  \/ Drained /\ DiscoverCtxDone("caller1")
  \/ Drained /\ \E id \in Ids : RemoveAgent(id)
  \/ Drained /\ RemoveAgentEmit
  \/ Drained /\ Tick

SpecCall == Init /\ [][NextCall]_vars

\* SpecLoop: continuous discovery; a subscriber takes each event before anything
\* else happens
NextLoop ==
  \/ Recv
  \/ Drained /\ \E i \in Intervals : StartContinuousDiscovery(i)
  \/ Drained /\ Announce("loop", Entries, MaxAnnounce)
  \/ Drained /\ Cancel("loop")
  \/ Drained /\ QueryFail("loop")
  \/ Drained /\ QueryTimeout("loop")
  \/ Drained /\ DiscoverRecv("loop")
  \/ Drained /\ ProcessEntryCommit("loop")
  \/ Drained /\ ProcessEntryEmit("loop")
  \/ Drained /\ DiscoverClosed("loop")
  \/ Drained /\ DiscoverCtxDone("loop")
  \/ Drained /\ TickerFire
  \/ Drained /\ LoopTick
  \/ Drained /\ LoopCtxDone
  \/ Drained /\ PruneLock
  \/ Drained /\ \E id \in todo : PruneStep(id)
  \/ Drained /\ PruneUnlock
  \/ Drained /\ Tick

SpecLoop == Init /\ [][NextLoop]_vars

\* SpecCallFair: SpecCall with the scheduler's guarantees: a goroutine that can
\* run does run, time passes, timers fire, and a select whose ctx.Done() case is
\* ready again and again takes it at some point (Go picks a ready case at random)
SpecCallFair ==
  /\ SpecCall
  /\ WF_vars(Recv)
  /\ WF_vars(Drained /\ Tick)
  /\ WF_vars(Drained /\ QueryTimeout("caller1"))
  /\ WF_vars(Drained /\ (\/ DiscoverRecv("caller1")
                         \/ ProcessEntryCommit("caller1")
                         \/ ProcessEntryEmit("caller1")
                         \/ DiscoverClosed("caller1")))
  /\ SF_vars(Drained /\ DiscoverCtxDone("caller1"))
  /\ WF_vars(Drained /\ RemoveAgentEmit)

\* SpecLoopFair: SpecLoop with the same guarantees
SpecLoopFair ==
  /\ SpecLoop
  /\ WF_vars(Recv)
  /\ WF_vars(Drained /\ Tick)
  /\ WF_vars(Drained /\ QueryTimeout("loop"))
  /\ WF_vars(Drained /\ TickerFire)
  /\ WF_vars(Drained /\ (\/ DiscoverRecv("loop")
                         \/ ProcessEntryCommit("loop")
                         \/ ProcessEntryEmit("loop")
                         \/ DiscoverClosed("loop")
                         \/ LoopTick
                         \/ PruneLock
                         \/ (\E id \in todo : PruneStep(id))
                         \/ PruneUnlock))
  /\ SF_vars(Drained /\ DiscoverCtxDone("loop"))
  /\ SF_vars(Drained /\ LoopCtxDone)

\* SpecQueue: no subscriber reads Events().  A burst of announcements of one
\* agent fills the queue; once it is full, time passes and RemoveAgent is called
\* while the loop goes on
QueueFill == EventQueueCap + 1
Full == Len(eventsCh) = EventQueueCap

NextQueue ==
  \/ \E i \in Intervals : StartContinuousDiscovery(i)
  \/ Announce("loop", {EntryA1}, QueueFill)
  \/ QueryTimeout("loop")
  \/ DiscoverRecv("loop")
  \/ ProcessEntryCommit("loop")
  \/ ProcessEntryEmit("loop")
  \/ DiscoverClosed("loop")
  \/ TickerFire
  \/ LoopTick
  \/ PruneLock
  \/ \E id \in todo : PruneStep(id)
  \/ PruneUnlock
  \/ Full /\ RemoveAgent(IdA)
  \/ RemoveAgentEmit
  \/ Full /\ Tick

SpecQueue == Init /\ [][NextQueue]_vars

\* SpecRace: continuous discovery runs while RemoveAgent, GetAgents and Close
\* are called at any time; nothing runs once a panic has ended the program
Running == Drained /\ ~panicked

NextRace ==
  \/ Recv
  \/ Running /\ \E i \in Intervals : StartContinuousDiscovery(i)
  \/ Running /\ Announce("loop", {EntryA1}, MaxAnnounce)
  \/ Running /\ QueryTimeout("loop")
  \/ Running /\ DiscoverRecv("loop")
  \/ Running /\ ProcessEntryCommit("loop")
  \/ Running /\ ProcessEntryEmit("loop")
  \/ Running /\ DiscoverClosed("loop")
  \/ Running /\ TickerFire
  \/ Running /\ LoopTick
  \/ Running /\ PruneLock
  \/ Running /\ \E id \in todo : PruneStep(id)
  \/ Running /\ PruneUnlock
  \/ Running /\ RemoveAgent(IdA)
  \/ Running /\ RemoveAgentEmit
  \/ Running /\ \E order \in Orders(DOMAIN agents) : GetAgents(order)
  \/ Running /\ Close
  \/ Running /\ Tick

SpecRace == Init /\ [][NextRace]_vars

\* SpecRaceFair: SpecRace where the subscriber keeps receiving and the goroutine
\* that holds the lock is scheduled
SpecRaceFair ==
  /\ SpecRace
  /\ WF_vars(Recv)
  /\ WF_vars(Running /\ ((\E id \in todo : PruneStep(id)) \/ PruneUnlock))

\* SpecClear: continuous discovery runs while Clear and GetAgents are called at
\* any time, also while an event waits in Events()
NextClear ==
  \/ Recv
  \/ Drained /\ \E i \in Intervals : StartContinuousDiscovery(i)
  \/ Drained /\ Announce("loop", Entries, MaxAnnounce)
  \/ Drained /\ QueryTimeout("loop")
  \/ Drained /\ DiscoverRecv("loop")
  \/ Drained /\ ProcessEntryCommit("loop")
  \/ Drained /\ ProcessEntryEmit("loop")
  \/ Drained /\ DiscoverClosed("loop")
  \/ Drained /\ TickerFire
  \/ Drained /\ LoopTick
  \/ Drained /\ PruneLock
  \/ Drained /\ \E id \in todo : PruneStep(id)
  \/ Drained /\ PruneUnlock
  \/ Clear
  \/ \E order \in Orders(DOMAIN agents) : GetAgents(order)
  \/ Drained /\ Tick

SpecClear == Init /\ [][NextClear]_vars

\* SpecUpload: a Hub starts uploads, each one once, and sends chunks in any
\* order, any number of times, also for upload ids the Agent does not know
NextUpload ==
  \/ \E total \in 1..MaxTotal : Matching("d1", total) = {} /\ InitUpload("d1", total)
  \/ \E i \in 1..Len(UploadIds), f \in Files, off \in 0..MaxTotal - 1 :
       \E n \in 1..MaxTotal - off : UploadChunk(UploadIds[i], f, off, n)

SpecUpload == Init /\ [][NextUpload]_vars

\* SpecSession: the whole life of upload sessions: a Hub starts, resumes, feeds,
\* completes and cancels uploads of one file each, of the two largest sizes,
\* in any order
NextSession ==
  \/ \E dest \in Dests, total \in MaxTotal - 1..MaxTotal : InitUpload(dest, total)
  \/ \E i \in 1..Len(UploadIds), off \in 0..MaxTotal - 1 :
       \E n \in 1..MaxTotal - off : UploadChunk(UploadIds[i], "f1", off, n)
  \/ \E i \in 1..Len(UploadIds) : CompleteUpload(UploadIds[i])
  \/ \E i \in 1..Len(UploadIds) : CancelUpload(UploadIds[i])

SpecSession == Init /\ [][NextSession]_vars

\* SpecErrors: callers build coded errors and convert them for the wire
NextErrors ==
  \/ \E code \in ErrCodes, message \in Messages, err \in Causes :
       CallNewProtocolError(code, message, err)
  \/ \E code \in ErrCodes \cup {OtherCode}, err \in Causes :
       CallErrorFromCode(code, err)
  \/ CallToErrorResponse

SpecErrors == Init /\ [][NextErrors]_vars

\* SpecMessages: requests, their responses and errors, events, and handlers
\* decoding payloads that came over the wire
NextMessages ==
  \/ \E msgType \in DOMAIN RequestPayloads :
       \E payload \in RequestPayloads[msgType] : SendRequest(msgType, payload)
  \/ \E i \in 1..MaxIds : Respond(i)
  \/ \E i \in 1..MaxIds, code \in {ErrCodeUploadNotFound, ErrCodeAgentBusy} :
       RespondError(i, code)
  \/ EmitProgress
  \/ \E payload \in WirePayloads, v \in Targets : CallParsePayload(payload, v)

SpecMessages == Init /\ [][NextMessages]_vars

\* SpecShortcuts: shortcuts are added on a device with two Steam users, with
\* every way the connection, the device and the library can fail
NextShortcuts ==
  \E name \in Games, exe \in Exes, connect \in BOOLEAN,
     users \in {"ok", "error", "none"}, outcome \in [SteamUsers -> Outcomes] :
    AddShortcutWithArtwork(name, exe, connect, users, outcome)

SpecShortcuts == Init /\ [][NextShortcuts]_vars

\* SpecRemove: shortcuts are added to and removed from a device with two Steam
\* users; a user may be left out of an addition, and a removal meets every way
\* the connection, the device and the library can fail
NextRemove ==
  \/ \E name \in Games, exe \in Exes, outcome \in [SteamUsers -> {"ok", "nopath"}] :
       AddShortcutWithArtwork(name, exe, TRUE, "ok", outcome)
  \/ \E name \in Games, outcome \in [SteamUsers -> RemoveOutcomes] :
       RemoveShortcut(name, TRUE, "ok", outcome)
  \/ \E name \in Games, users \in {"error", "none"} :
       RemoveShortcut(name, TRUE, users, [u \in SteamUsers |-> "ok"])
  \/ \E name \in Games :
       RemoveShortcut(name, FALSE, "ok", [u \in SteamUsers |-> "ok"])

SpecRemove == Init /\ [][NextRemove]_vars

\* SpecEntry: announcements with any TXT records are parsed
NextEntry == \E fields \in FieldLists : ParseEntry(EntryWith(fields))

SpecEntry == Init /\ [][NextEntry]_vars

\* SpecSteam: the Steam library is refreshed a number of times on a device
\* whose Steam closes down and comes back at its own pace
NextSteam ==
  \/ \E host \in Hosts, connect \in BOOLEAN : RefreshConnect(host, connect)
  \/ \E out \in {"ok", "failed"} : RefreshRunCommand(out)
  \/ RefreshReturn
  \/ \E host \in Hosts : SteamExit(host)
  \/ \E host \in Hosts : SteamRelaunch(host)

SpecSteam == Init /\ [][NextSteam]_vars

\* scanNetworkForSSH: the caller and its probe goroutines
NextScan ==
  \/ \E localIP \in LocalIPs : ScanStart(localIP)
  \/ ScanSpawn
  \/ \E i \in 1..MaxHost : ProbeAcquire(i)
  \/ \E i \in 1..MaxHost, open \in BOOLEAN : ProbeHasSSH(i, open)
  \/ \E i \in 1..MaxHost : ProbeLock(i)
  \/ \E i \in 1..MaxHost : ProbeAppend(i)
  \/ \E i \in 1..MaxHost : ProbeRelease(i)
  \/ \E i \in 1..MaxHost : ProbeDone(i)
  \/ ScanReturn

SpecScan == Init /\ [][NextScan]_vars

\* SpecDevices: the buttons of the devices tab are used in any order while
\* connects run on their own goroutines
NextDevices ==
  \/ \E k \in 1..Len(devices) : SelectDevice(k)
  \/ \E ok \in BOOLEAN : ConnectNewClient(ok)
  \/ \E d \in DevNames, ok \in BOOLEAN : ConnectDial(d, ok)
  \/ \E d \in DevNames : ConnectSetClient(d)
  \/ \E d \in DevNames : ConnectSetConnected(d)
  \/ ClickDisconnect
  \/ ClickRemove
  \/ DisconnectSetConnected

SpecDevices == Init /\ [][NextDevices]_vars

\* SpecUploadGame: uploadGame runs, one run after another, over any game
\* folder, with every remote call succeeding or failing
NextUploadGame ==
  \/ \E mkdirOk \in BOOLEAN : UploadGameStart(mkdirOk)
  \/ \E files \in FolderLists, ok \in BOOLEAN : UploadGameScan(files, ok)
  \/ \E mkdirOk \in BOOLEAN, ok \in BOOLEAN : UploadGameFile(mkdirOk, ok)
  \/ UploadGameBeforeShortcut
  \/ \E ok \in BOOLEAN : UploadGameShortcut(ok)

SpecUploadGame == Init /\ [][NextUploadGame]_vars

\* SpecProgress: uploadGame runs over game folders of one file up to
\* MaxFolder files
LongFolders == {[k \in 1..n |-> FileName(k)] : n \in 1..MaxFolder}

NextProgress ==
  \/ UploadGameStart(TRUE)
  \/ \E files \in LongFolders : UploadGameScan(files, TRUE)
  \/ \E ok \in BOOLEAN : UploadGameFile(TRUE, ok)
  \/ UploadGameBeforeShortcut
  \/ \E ok \in BOOLEAN : UploadGameShortcut(ok)

SpecProgress == Init /\ [][NextProgress]_vars

\* ================================================================= claims
Range(q) == {q[i] : i \in 1..Len(q)}
\* what a queue holds after one emitEvent call
Emitted(q, event) == IF Len(q) < EventQueueCap THEN Append(q, event) ELSE q
\* goroutine p leaves the locked part of processEntry / leaves processEntry
Commits(p) == dpc[p] = "lock" /\ dpc'[p] = "emit"
Emits(p) == dpc[p] = "emit" /\ dpc'[p] = "select"

\* C1: for every agent id in the registry, lastSeen never decreases, whatever
\* the interleaving of concurrent processEntry calls: outside the passage of
\* time (which leaves lastSeen alone), time.Since(lastSeen) never grows.
C1_LastSeenNeverDecreases ==
  [][Tick \/ \A id \in DOMAIN agents \cap DOMAIN agents' :
               agents'[id].LastSeen <= agents[id].LastSeen]_vars

\* C2: an announcement of a known id keeps the set of entries and the entry's
\* identity, refreshes lastSeen, addresses and port and emits one updated
\* event; an announcement of an unknown id inserts exactly that entry and emits
\* one discovered event; every entry is filed under its own id.
C2_UpdateOrInsert ==
  [][/\ \A p \in Procs :
          /\ Commits(p) =>
               LET id == pe[p].Info.ID IN
                 /\ \A k \in DOMAIN agents \ {id} :
                      k \in DOMAIN agents' /\ agents'[k] = agents[k]
                 /\ IF id \in DOMAIN agents
                      THEN /\ DOMAIN agents' = DOMAIN agents
                           /\ agents'[id].Info = agents[id].Info
                           /\ agents'[id].Host = agents[id].Host
                           /\ agents'[id].LastSeen = pe[p].LastSeen
                           /\ agents'[id].IPs = pe[p].IPs
                           /\ agents'[id].Port = pe[p].Port
                           /\ pev'[p] = [Type |-> "updated", ID |-> id]
                      ELSE /\ DOMAIN agents' = DOMAIN agents \cup {id}
                           /\ agents'[id] = pe[p]
                           /\ pev'[p] = [Type |-> "discovered", ID |-> id]
          /\ Emits(p) => /\ eventsCh' = Emitted(eventsCh, pev[p])
                         /\ agents' = agents
     /\ \A k \in DOMAIN agents' : agents'[k].Info.ID = k]_vars

\* C2 witness: agent a, known from an earlier announcement, was announced again
\* from another port and address; its entry carries them and an updated event
\* is about to be emitted, the registry still holding the one entry.
C2_Witness ==
  \E p \in Procs :
    /\ dpc[p] = "emit"
    /\ pev[p] = [Type |-> "updated", ID |-> IdA]
    /\ DOMAIN agents = {IdA}
    /\ agents[IdA].Port = EntryA2.Port
    /\ agents[IdA].IPs = CollectIPs(EntryA2)
    /\ agents[IdA].LastSeen = TimeNow

\* C3: a prune pass visits every entry the registry holds, removes exactly the
\* visited agents with now - lastSeen greater than the timeout, emitting one
\* lost event for each, keeps every other agent, and nothing else touches the
\* registry while the pass holds the lock.
C3_PruneExactlyStale ==
  [][/\ (loopPc = "prune" /\ loopPc' = "pruning") =>
          todo' = DOMAIN agents /\ agents' = agents
     /\ (loopPc = "pruning" /\ loopPc' = "select") => todo = {} /\ agents' = agents
     /\ (loopPc = "pruning" /\ todo' # todo) =>
          \E id \in todo :
            /\ todo' = todo \ {id}
            /\ IF agents[id].LastSeen > timeout
                 THEN /\ agents' = Without(agents, id)
                      /\ eventsCh' = Emitted(eventsCh, [Type |-> "lost", ID |-> id])
                 ELSE agents' = agents /\ eventsCh' = eventsCh
     /\ (loopPc = "pruning" /\ loopPc' = "pruning" /\ todo' = todo) =>
          /\ DOMAIN agents' = DOMAIN agents
          /\ \A k \in DOMAIN agents : agents'[k].LastSeen >= agents[k].LastSeen]_vars

\* C3 witness: the pass is over its range; agent a, last seen 3 units ago with a
\* timeout of 2, is gone and its one lost event is queued; agent b, seen within
\* the timeout, is kept.
C3_Witness ==
  /\ loopPc = "pruning"
  /\ todo = {}
  /\ timeout = 2
  /\ DOMAIN agents = {IdB}
  /\ agents[IdB].LastSeen <= timeout
  /\ eventsCh = <<[Type |-> "lost", ID |-> IdA]>>

\* C7: RemoveAgent(id) removes the entry of id if there is one and then emits
\* one lost event for it; for an id the registry does not hold it changes
\* nothing and emits nothing; entries of other ids stay as they are.
C7_RemoveAgent ==
  [][/\ (rpc = "idle" /\ rpc' = "emit") =>
          /\ rloc'.exists = (rloc'.id \in DOMAIN agents)
          /\ agents' = IF rloc'.id \in DOMAIN agents THEN Without(agents, rloc'.id)
                       ELSE agents
          /\ eventsCh' = eventsCh
     /\ (rpc = "emit" /\ rpc' = "idle") =>
          /\ agents' = agents
          /\ eventsCh' = IF rloc.exists
                           THEN Emitted(eventsCh, [Type |-> "lost", ID |-> rloc.id])
                           ELSE eventsCh]_vars

\* C7 witness: RemoveAgent(a) has returned with both agents known before; a is
\* gone, b is still there and the lost event of a is queued.
C7_Witness ==
  /\ rpc = "idle"
  /\ DOMAIN agents = {IdB}
  /\ eventsCh = <<[Type |-> "lost", ID |-> IdA]>>

\* the continuous loop has been started and has not returned
LoopRunning == loopPc \notin {"idle", "done"}

\* C4 as stated: with timeout T greater than the interval I, an agent is pruned
\* if and only if no announcement of its id arrives within T of its last one;
\* so an announcement that arrives while the loop runs never finds the agent
\* still registered with its last announcement more than T ago.
C4_PrunedIffSilentForT ==
  [][(LoopRunning /\ timeout > interval /\ dpc["loop"] = "select"
        /\ dpc'["loop"] = "lock" /\ pe'["loop"].Info.ID \in DOMAIN agents)
       => agents[pe'["loop"].Info.ID].LastSeen <= timeout]_vars

\* C4 amended: with T > I, an agent leaves the registry of the running loop only
\* in a prune pass, the pass that follows the query of an interval tick, and
\* only when that pass finds now - lastSeen > T; an agent the pass finds within
\* T stays; and an agent whose lastSeen is no longer refreshed is pruned at some
\* point, unless the loop is cancelled first.
C4_PrunedAtPassWhenStale ==
  /\ [][timeout > interval =>
          /\ \A id \in DOMAIN agents \ DOMAIN agents' :
               /\ loopPc = "pruning" /\ id \in todo
               /\ agents[id].LastSeen > timeout
               /\ eventsCh' = Emitted(eventsCh, [Type |-> "lost", ID |-> id])
          /\ (loopPc = "pruning" /\ todo' # todo) =>
               \A id \in (todo \ todo') \cap DOMAIN agents :
                 agents[id].LastSeen <= timeout => id \in DOMAIN agents'
          /\ (loopPc' = "prune") => (loopPc = "tick" \/ loopPc = "prune")]_vars
  /\ \A id \in Ids :
       (id \in DOMAIN agents /\ agents[id].LastSeen > TimeNow)
         ~> (\/ id \notin DOMAIN agents
             \/ loopPc = "done"
             \/ agents[id].LastSeen = TimeNow)

\* C4 witness: an announcement of agent a has arrived while a is registered with
\* its last announcement more than T ago (T > I); no prune pass removed a in
\* between.
C4_Witness ==
  /\ LoopRunning
  /\ timeout > interval
  /\ dpc["loop"] = "lock"
  /\ pe["loop"].Info.ID = IdA
  /\ IdA \in DOMAIN agents
  /\ agents[IdA].LastSeen > timeout

\* C6: a query of the loop that fails or delivers no announcement changes no
\* registry entry and emits no event, from its start to the return of Discover,
\* and the loop goes on (to the prune pass and back to its select) instead of
\* stopping.
C6_FailedQueryKeepsRegistry ==
  [][(nsent["loop"] = 0 /\ nsent'["loop"] = 0
        /\ (qstate'["loop"] # qstate["loop"] \/ dpc'["loop"] # dpc["loop"]))
       => /\ agents' = agents
          /\ eventsCh' = eventsCh
          /\ loopPc' \in {"initial", "tick", "select", "prune"}
          /\ (dpc["loop"] = "select" /\ dpc'["loop"] = "idle")
               => loopPc' = (IF loopPc = "initial" THEN "select" ELSE "prune")]_vars

\* C6 witness: the query of an interval tick has failed or ended without any
\* announcement while agent a is registered; Discover is about to return.
C6_Witness ==
  /\ loopPc = "tick"
  /\ dpc["loop"] = "select"
  /\ qstate["loop"] = "closed"
  /\ nsent["loop"] = 0
  /\ IdA \in DOMAIN agents

C9_LoopStopsOnlyOnCancel ==
  /\ [](loopPc = "done" => ctxDone["loop"])
  /\ (ctxDone["loop"] /\ loopPc # "idle") ~> (loopPc = "done")

\* C9 witness: the loop was cancelled during the query of an interval tick and
\* has returned.
C9_Witness ==
  /\ loopPc = "done"
  /\ ctxDone["loop"]
  /\ dpc["loop"] = "idle"
  /\ IdA \in DOMAIN agents

\* C5: emitEvent never blocks its caller, also with no reader of Events(): the
\* queue never holds more than 16 events; a producer that has reached its
\* emitEvent call (announcement processing, prune pass, RemoveAgent) can always
\* take the step; and with 16 events queued the step leaves the queue as it is,
\* drops the new event and lets the producer go on.
C5_EmitNeverBlocks ==
  /\ [](/\ Len(eventsCh) <= EventQueueCap
        /\ \A p \in Procs : dpc[p] = "emit" => ENABLED ProcessEntryEmit(p)
        /\ \A id \in Ids : (loopPc = "pruning" /\ id \in todo) => ENABLED PruneStep(id)
        /\ rpc = "emit" => ENABLED RemoveAgentEmit)
  /\ [][Len(eventsCh) = EventQueueCap =>
          /\ eventsCh' = eventsCh
          /\ \A p \in Procs :
               (dpc[p] = "emit" /\ dpc'[p] # "emit") =>
                 dropped' /\ dpc'[p] = "select" /\ found'[p] = Append(found[p], pev[p].ID)
          /\ (loopPc = "pruning" /\ todo' # todo /\ agents' # agents) =>
               dropped' /\ \E id \in todo : todo' = todo \ {id}
                                            /\ agents' = Without(agents, id)
          /\ (rpc = "emit" /\ rpc' = "idle" /\ rloc.exists) => dropped'
          /\ dropped' # dropped =>
               \/ \E p \in Procs : dpc[p] = "emit" /\ dpc'[p] = "select"
               \/ loopPc = "pruning" /\ todo' # todo
               \/ rpc = "emit" /\ rpc' = "idle"]_vars

\* C5 witness: nobody reads Events(); the queue holds the first 16 events, the
\* event of the latest emitEvent call was dropped, and the producers have all
\* finished: the announcement was processed, the prune pass and RemoveAgent are
\* over.
C5_Witness ==
  /\ Len(eventsCh) = EventQueueCap
  /\ eventsCh[1] = [Type |-> "discovered", ID |-> IdA]
  /\ dropped
  /\ announced = QueueFill
  /\ dpc["loop"] = "idle"
  /\ loopPc = "select"
  /\ rpc = "idle"
  /\ IdA \notin DOMAIN agents

\* the highest contiguous durable offset of a file, counted from 0
Contiguous(S) ==
  CHOOSE n \in 0..MaxTotal + 1 : n \notin S /\ \A m \in 0..n - 1 : m \in S

\* C10: in every upload session, whatever chunks were sent, in whatever order
\* and however often, bytesWritten is the sum over the session's files of the
\* highest contiguous durable offset from 0 (bytes behind a gap do not count),
\* and a chunk whose bytes are all durable already leaves bytesWritten as it is.
C10_BytesWrittenContiguous ==
  /\ [](\A id \in DOMAIN uploads :
          uploads[id].bytesWritten =
            SumOver([f \in Files |-> Contiguous(uploads[id].durable[f])], Files))
  /\ [][\A id \in DOMAIN uploads :
          uploads'[id].durable = uploads[id].durable
            => uploads'[id].bytesWritten = uploads[id].bytesWritten]_vars

\* C10 witness: in one session the chunk [1,3) of a file has arrived before
\* [0,1) and is not counted; in another the first byte of a file counts while a
\* second file holds a byte behind a gap that does not.
C10_Witness ==
  /\ DOMAIN uploads = {"u1", "u2"}
  /\ uploads["u1"].totalSize = 3
  /\ uploads["u1"].durable["f1"] = {1, 2}
  /\ uploads["u1"].bytesWritten = 0
  /\ uploads["u2"].totalSize = 2
  /\ uploads["u2"].durable["f1"] = {0}
  /\ uploads["u2"].durable["f2"] = {1}
  /\ uploads["u2"].bytesWritten = 1
\* ---------------------------------------------------------------------------
\* Upload sessions: completion, cancellation, resumption
\* ---------------------------------------------------------------------------

Known == DOMAIN uploads

\* C11: CompleteUpload on an Active session succeeds and moves it to Completed
\* if and only if its bytesWritten equals its totalSize; otherwise the call
\* fails with UPLOAD_FAILED and leaves every session as it was (Active, same
\* bytesWritten), and no session becomes Completed in any other way.
C11_CompleteIffAllWritten ==
  [][/\ \A id \in Known :
          CompleteUpload(id) /\ uploads[id].state = "Active" =>
            IF uploads[id].bytesWritten = uploads[id].totalSize
              THEN /\ uploadErr' = NoErr
                   /\ uploads' = [uploads EXCEPT ![id].state = "Completed"]
              ELSE /\ uploadErr' = ErrCodeUploadFailed
                   /\ uploads' = uploads
     /\ \A id \in Known :
          uploads[id].state # "Completed" /\ uploads'[id].state = "Completed" =>
            /\ uploads[id].bytesWritten = uploads[id].totalSize
            /\ uploadErr' = NoErr]_vars

\* C11 witness: an early CompleteUpload was refused and left the session Active,
\* the rest of its bytes were accepted afterwards and it is now Completed, while
\* a second session has just been refused.
C11_Witness ==
  /\ Known = {"u1", "u2"}
  /\ uploads["u1"].state = "Completed"
  /\ uploads["u1"].bytesWritten = 3
  /\ uploads["u2"].state = "Active"
  /\ uploads["u2"].totalSize = 2
  /\ uploads["u2"].bytesWritten = 1
  /\ uploads["u2"].durable["f1"] = {0}
  /\ uploadErr = ErrCodeUploadFailed

C13_CancelUpload ==
  [][\A id \in Known :
       CancelUpload(id) =>
         /\ uploadErr' = NoErr
         /\ uploads' = IF uploads[id].state \in {"Completed", "Cancelled", "Failed"}
                         THEN uploads
                         ELSE [uploads EXCEPT ![id].state = "Cancelled"]]_vars

\* C13 witness: a Completed session that is still Completed after a successful
\* call, next to a session cancelled half-way.
C13_Witness ==
  /\ Known = {"u1", "u2"}
  /\ uploads["u1"].state = "Completed"
  /\ uploads["u2"].state = "Cancelled"
  /\ uploads["u2"].bytesWritten = 1
  /\ uploads["u2"].totalSize = 2
  /\ uploadErr = NoErr
  /\ initRes.uploadId = "u2"

\* C14: InitUpload for a destination and size that no interrupted session has
\* returns an id no session has had and resumeFrom 0; for those of an
\* interrupted session it returns that session's id and its bytesWritten and
\* creates nothing.
C14_InitUploadResume ==
  [][\A dest \in Dests, total \in 1..MaxTotal :
       InitUpload(dest, total) =>
         LET old == {id \in Known : /\ uploads[id].dest = dest
                                    /\ uploads[id].totalSize = total
                                    /\ uploads[id].state = "Active"}
         IN IF old = {}
              THEN /\ initRes'.uploadId \notin Known
                   /\ initRes'.resumeFrom = 0
                   /\ DOMAIN uploads' = Known \cup {initRes'.uploadId}
                   /\ uploads'[initRes'.uploadId].bytesWritten = 0
                   /\ \A id \in Known : uploads'[id] = uploads[id]
              ELSE /\ initRes'.uploadId \in old
                   /\ initRes'.resumeFrom = uploads[initRes'.uploadId].bytesWritten
                   /\ uploads' = uploads]_vars

\* C14 witness: the first session, interrupted after two of its three bytes, is
\* handed out again with resumeFrom 2 after a second upload has been started.
C14_Witness ==
  /\ Known = {"u1", "u2"}
  /\ uploads["u1"].state = "Active"
  /\ uploads["u1"].totalSize = 3
  /\ uploads["u1"].bytesWritten = 2
  /\ uploads["u2"].dest # uploads["u1"].dest
  /\ initRes = [uploadId |-> "u1", resumeFrom |-> 2]


\* ---------------------------------------------------------------------------
\* Error taxonomy
\* ---------------------------------------------------------------------------

\* the table of TestErrorFromCode
WantMsg ==
  (ErrCodeInvalidRequest :> "invalid request")
  @@ (ErrCodeUploadNotFound :> "upload not found")
  @@ (ErrCodeUploadFailed :> "upload failed")
  @@ (ErrCodeShortcutNotFound :> "shortcut not found")
  @@ (ErrCodeShortcutExists :> "shortcut already exists")
  @@ (ErrCodeSteamNotRunning :> "steam is not running")
  @@ (ErrCodeSteamNotFound :> "steam installation not found")
  @@ (ErrCodePermissionDenied :> "permission denied")
  @@ (ErrCodeDiskFull :> "insufficient disk space")
  @@ (ErrCodeTimeout :> "operation timed out")
  @@ (ErrCodeAgentBusy :> "agent is busy with another operation")
  @@ (ErrCodeUnknown :> "unknown error")

\* C16: the wire form of a coded error has exactly the fields code, message and
\* details, all text; code and message are those of the error, and details is
\* the cause's text when there is a cause and empty when there is none.
C16_ToErrorResponse ==
  [][CallToErrorResponse =>
       LET e == perr[1]
           r == wire'[1]
       IN /\ DOMAIN r = {"Code", "Message", "Details"}
          /\ r.Code = e.Code
          /\ r.Message = e.Message
          /\ r.Details \in STRING
          /\ Unwrap(e) = NoCause => r.Details = ""
          /\ Unwrap(e) # NoCause => r.Details = Error(Unwrap(e)[1])]_vars

\* C16 witness: an error whose cause is itself a coded error with a cause has
\* been converted; the details are that cause's one text.
C16_Witness ==
  /\ perr # << >>
  /\ wire # << >>
  /\ perr[1].Code = ErrCodeDiskFull
  /\ perr[1].Err # NoCause
  /\ perr[1].Err[1].kind = "ProtocolError"
  /\ wire[1].Code = ErrCodeDiskFull
  /\ wire[1].Details = "TIMEOUT: operation timed out (test)"

\* C17: for every code of the const block and every cause, ErrorFromCode gives
\* an error with that code, the message the test table lists for the code, and
\* that cause.
C17_ErrorFromCode ==
  [][\A code \in ErrCodes, err \in Causes :
       CallErrorFromCode(code, err) =>
         /\ perr'[1].Code = code
         /\ perr'[1].Message = WantMsg[code]
         /\ Unwrap(perr'[1]) = err]_vars

\* C17 witness: DISK_FULL with a cause whose own text differs from the
\* canonical message.
C17_Witness ==
  /\ perr # << >>
  /\ perr[1].Code = ErrCodeDiskFull
  /\ perr[1].Message = "insufficient disk space"
  /\ perr[1].Err = <<ErrorsNew("disk full")>>

\* C18: every coded error built carries one of the codes of the const block.
C18_CodeInClosedSet ==
  perr # << >> => perr[1].Code \in ErrCodes

\* ---------------------------------------------------------------------------
\* Message envelope
\* ---------------------------------------------------------------------------

\* C15: no two requests in flight carry the same id; a response or error carries
\* the id of the request it answers, which exactly one request in flight has;
\* an event carries the id of no request in flight.
C15_CorrelationIds ==
  /\ [](\A i, j \in 1..Len(inflight) : i # j => inflight[i].ID # inflight[j].ID)
  /\ [](lastEvent # << >> => lastEvent[1].ID \notin InFlightIds)
  /\ [](last # << >> => last[1].resp.ID = last[1].req.ID)
  /\ [][\A i \in 1..Len(inflight) :
          last' # last /\ inflight' = Remove(inflight, i) =>
            /\ last'[1].req = inflight[i]
            /\ {j \in 1..Len(inflight) : inflight[j].ID = last'[1].resp.ID} = {i}]_vars

\* C15 witness: of two requests sent, one has been answered with an error under
\* its own id while the other is still in flight, and an event has gone out.
C15_Witness ==
  /\ Len(inflight) = 1
  /\ last # << >>
  /\ last[1].resp.Type = MsgTypeError
  /\ last[1].resp.ID = "m1"
  /\ inflight[1].ID = "m3"
  /\ lastEvent # << >>
  /\ lastEvent[1].ID = "m2"

\* C19: when ParsePayload reports a failure, it is a coded error with code
\* INVALID_REQUEST; a message without payload parses without error and leaves
\* the target as it was.
C19_DecodeFailureIsInvalidRequest ==
  /\ parsed # << >> /\ parsed[1].err # NoCause =>
       /\ parsed[1].err[1].kind = "ProtocolError"
       /\ parsed[1].err[1].Code = ErrCodeInvalidRequest
  /\ parsed # << >> /\ parsed[1].m.Payload = << >> =>
       /\ parsed[1].err = NoCause
       /\ parsed[1].v = parsed[1].target

\* ---------------------------------------------------------------------------
\* Shortcuts
\* ---------------------------------------------------------------------------

\* C20: a call of AddShortcutWithArtwork that returns an error leaves the
\* shortcuts file of every user as it was before the call.
C20_FailedAddLeavesStores ==
  [][scRet' # NoErr => stores' = stores]_vars

\* C21: whatever calls were made, the shortcuts file of a user holds at most
\* one shortcut of a given name and app id.
C21_OneShortcutPerName ==
  \A u \in SteamUsers :
    \A i, j \in 1..Len(stores[u].scs) :
      /\ stores[u].scs[i].AppName = stores[u].scs[j].AppName
      /\ stores[u].scs[i].Appid = stores[u].scs[j].Appid
      => i = j

\* C24: every shortcut an add operation writes carries the app id computed
\* from its own quoted executable path and name, and the shortcuts one
\* operation writes to the users' files are one and the same.
C24_AppIdDeterministic ==
  [][LET changed == {u \in SteamUsers : stores'[u] # stores[u]}
         added(u) == stores'[u].scs[Len(stores'[u].scs)]
     IN /\ \A u \in changed :
             /\ stores'[u].scs = Append(stores[u].scs, added(u))
             /\ added(u).Exe = Quoted(SubSeq(added(u).Exe, 2, Len(added(u).Exe) - 1))
             /\ added(u).Appid = CalculateAppID(added(u).Exe, added(u).AppName)
        /\ \A u, w \in changed : added(u) = added(w)]_vars

\* C24 witness: one operation has written game2 to both users' files, after
\* an earlier one wrote game1 to the first user's file only.
C24_Witness ==
  /\ scRet = NoErr
  /\ Len(stores["user1"].scs) = 2
  /\ Len(stores["user2"].scs) = 1
  /\ stores["user1"].scs[1].AppName = "game1"
  /\ stores["user1"].scs[2] = stores["user2"].scs[1]
  /\ stores["user2"].scs[1].AppName = "game2"
  /\ stores["user2"].scs[1].Appid = CalculateAppID("\"/g/run\"", "game2")
  /\ stores["user2"].scs[1].Appid # stores["user1"].scs[1].Appid

\* ---------------------------------------------------------------------------
\* Identity of an announcement
\* ---------------------------------------------------------------------------

\* positions of the TXT records that start with pre, and of those that go on
\* after it
Present(entry, pre) ==
  {i \in 1..Len(entry.InfoFields) :
     /\ Len(entry.InfoFields[i]) >= Len(pre)
     /\ SubSeq(entry.InfoFields[i], 1, Len(pre)) = pre}
WithValue(entry, pre) ==
  {i \in Present(entry, pre) : Len(entry.InfoFields[i]) > Len(pre)}
ValueAt(entry, pre, i) ==
  SubSeq(entry.InfoFields[i], Len(pre) + 1, Len(entry.InfoFields[i]))
LastOf(S) == CHOOSE i \in S : \A j \in S : j <= i
IdKey == <<"i", "d", "=">>
NameKey == <<"n", "a", "m", "e", "=">>

C23_RestartDoesNotWait ==
  /\ [](rsPc = "ran" => rsIssued = 1 /\ ENABLED RefreshReturn)
  /\ [](rsPc = "connected" => rsIssued = 0)
  /\ [][rsPc # "idle" /\ rsPc' = "idle" =>
          rsPc = "ran" /\ rsRet' = NoErr /\ rsIssued' = 1 /\ steam' = steam]_vars
  /\ [](rsRet \notin {NoErr, "none"} =>
          rsRet = "failed to connect" /\ rsPc = "idle" /\ rsIssued = 0)

\* C23 witness: the second call has returned nil although its command failed,
\* while Steam, shut down by the first call, has not come back.
C23_Witness ==
  /\ rsCalls = 2
  /\ rsPc = "idle"
  /\ rsRet = NoErr
  /\ rsOut = "failed"
  /\ steam[rsHost] = "stopped"

\* ---------------------------------------------------------------------------
\* scanNetworkForSSH
\* ---------------------------------------------------------------------------
ReturnedIPs == IF scanRet = << >> THEN {} ELSE {scanRet[1][k].IP : k \in 1..Len(scanRet[1])}

\* C25: during a scan the probes in flight never exceed the capacity of the
\* semaphore; a probe that finds the gate full waits and is made later, so
\* no address is probed twice and the scan can always take a step until it
\* has returned; scanNetworkForSSH returns only after every probe goroutine
\* has exited, each address probed exactly once, and the returned list
\* holds, once each, exactly the addresses whose probe succeeded.
C25_GatedScan ==
  /\ Cardinality(InFlight) = semaphore
  /\ semaphore <= MaxInFlight
  /\ \A i \in 1..MaxHost :
       /\ probes[i] <= 1
       /\ probePc[i] \in {"unborn", "acquire", "probe"} => probes[i] = 0
       /\ probePc[i] \in {"lock", "append", "release", "done", "exited"} =>
            probes[i] = 1
  /\ scanPc \in {"spawn", "wait"} => ENABLED NextScan
  /\ (scanRet # << >>) <=> (scanPc = "returned")
  /\ scanPc = "returned" /\ baseIP # "" =>
       /\ \A i \in 1..MaxHost : probePc[i] = "exited" /\ probes[i] = 1
       /\ ReturnedIPs = sshOpen
       /\ Len(scanRet[1]) = Cardinality(sshOpen)

\* the gate is full while another probe waits for a slot, after an earlier
\* probe has found SSH on the last address and left
C25_Witness ==
  /\ scanPc = "wait"
  /\ semaphore = MaxInFlight
  /\ \E i \in 1..MaxHost : probePc[i] = "acquire"
  /\ Len(scanFound) = 1
  /\ scanFound[1].IP = ScanIP("10.0.0", MaxHost)

\* ---------------------------------------------------------------------------
\* the registry lock
\* ---------------------------------------------------------------------------
\* C26: the registry lock is held across steps only by a prune pass, which
\* has no query running and waits for nothing: its next step (one map
\* entry, with a non-blocking emit, or the unlock) is always enabled; so a
\* held lock is always released, and the other operations (GetAgents,
\* RemoveAgent, announcement processing) find it free again.
C26_LockHeldBriefly ==
  /\ [](mu # Nil =>
          /\ mu = "loop"
          /\ loopPc = "pruning"
          /\ dpc["loop"] = "idle"
          /\ qstate["loop"] = "none"
          /\ ENABLED ((\E id \in todo : PruneStep(id)) \/ PruneUnlock))
  /\ (mu # Nil) ~> (mu = Nil \/ panicked)

\* a prune pass holds the lock with a stale agent still to visit, and a
\* RemoveAgent of that agent cannot go on yet
C26_Witness ==
  /\ mu = "loop"
  /\ todo = {IdA}
  /\ IsStale(agents[IdA], timeout)
  /\ rpc = "idle"
  /\ ~panicked
  /\ ~ENABLED RemoveAgent(IdA)

\* ---------------------------------------------------------------------------
\* order of events
\* ---------------------------------------------------------------------------
\* C27: for each agent id the events reach the event stream in the order of
\* the registry mutations that caused them: no event is emitted while the
\* event of an earlier mutation of the same id is still to be emitted.
C27_EventsInMutationOrder == ~misplaced

\* ---------------------------------------------------------------------------
\* Close
\* ---------------------------------------------------------------------------
\* C28: once Close has closed the event channel no operation sends on it:
\* the program never panics with a send on a closed channel.
C28_NoSendAfterClose == ~panicked

\* ---------------------------------------------------------------------------
\* devices tab
\* ---------------------------------------------------------------------------
InList(d) == \E k \in 1..Len(devices) : devices[k] = d

\* no connect or disconnect of the device is between its two assignments
AtRest(d) == connPc[d] # "mark" /\ (uiPc = << >> \/ uiPc[1].dev # d)

\* C29: a device is marked Connected exactly when it holds a client,
\* whenever no connect or disconnect of it is halfway through its two
\* assignments; and a device that has been removed from the list is not
\* marked Connected.
C29_ConnectedIffClient ==
  \A d \in DevNames :
    /\ AtRest(d) => (devConnected[d] <=> devClient[d] # 0)
    /\ AtRest(d) /\ ~InList(d) => ~devConnected[d]

\* ---------------------------------------------------------------------------
\* uploadGame
\* ---------------------------------------------------------------------------
IsPrefix(a, b) == Len(a) <= Len(b) /\ SubSeq(b, 1, Len(a)) = a

\* C30: files are handed to UploadFile in list order, each at most once; a
\* failed upload is the last one of the run, which then reports an error
\* and creates no shortcut; createShortcut is called at most once and only
\* when every file of the list has been uploaded; success is reported only
\* when that call was made and succeeded.
C30_ShortcutAfterAllFiles ==
  /\ IsPrefix(ugTried, ugFiles)
  /\ IsPrefix(ugSent, ugTried)
  /\ Len(ugTried) <= Len(ugSent) + 1
  /\ ugTried # ugSent => ugPc = "done" /\ ugResult = "error" /\ ugShortcuts = 0
  /\ ugShortcuts <= 1
  /\ ugShortcuts = 1 => ugSent = ugFiles /\ ugPc = "done"
  /\ ugResult = "success" => ugShortcuts = 1 /\ ugSent = ugFiles

\* the second of three files has failed and the run has ended with an error
C30_Witness ==
  /\ Len(ugFiles) = MaxFiles
  /\ ugTried = SubSeq(ugFiles, 1, 2)
  /\ ugSent = SubSeq(ugFiles, 1, 1)
  /\ ugPc = "done"
  /\ ugResult = "error"

\* ---------------------------------------------------------------------------
\* progress of uploadGame
\* ---------------------------------------------------------------------------
\* C31: the progress value lies within [0, 1], and within one run of
\* uploadGame it never decreases.
C31_ProgressNeverDecreases ==
  /\ [](RatioLeq(Ratio(0, 1), ugProgress) /\ RatioLeq(ugProgress, Ratio(1, 1)))
  /\ [][ugPc \notin {"idle", "done"} => RatioLeq(ugProgress, ugProgress')]_vars

\* C32: Clear empties the registry without emitting any event: the step leaves
\* the event stream and the events still owed as they were, GetAgents can only
\* return the empty list in the state it leaves, and the next announcement of
\* a cleared id is reported as discovered, not updated.
C32_ClearIsSilent ==
  /\ [][Clear => /\ eventsCh' = eventsCh
                 /\ owed' = owed
                 /\ Orders(DOMAIN agents') = {<< >>}]_vars
  /\ [][(ProcessEntryCommit("loop") /\ pe["loop"].Info.ID \in clearedIds)
          => pev'["loop"].Type = "discovered"]_vars

\* an agent was cleared while its discovered event waited in Events(), and
\* GetAgents has returned the empty list since
C32_Witness ==
  /\ clearedIds = {IdA}
  /\ agents = EmptyMap
  /\ eventsCh = <<[Type |-> "discovered", ID |-> IdA]>>
  /\ listed = << >>

\* an agent found earlier in the same Discover call was cleared, and its next
\* announcement has been filed as a new agent
C32_WitnessAgain ==
  /\ pev["loop"] = [Type |-> "discovered", ID |-> IdA]
  /\ IdA \in Range(found["loop"])
  /\ IdA \notin clearedIds

\* how often a shortcut occurs in a collection
Count(scs, sc) == Cardinality({i \in 1..Len(scs) : scs[i] = sc})

\* the users whose store a RemoveShortcut call loads
Loaded(users, outcome) ==
  IF users = "ok" THEN {u \in SteamUsers : stores[u].has /\ outcome[u] \in {"ok", "savefail"}}
  ELSE {}

====
